---- MODULE Spec2Model ----
(***************************************************************************)
(* A model of local-pvc-backup: the repository bootstrap, the scheduling   *)
(* loop with its ticker and its cancellation context, one backup cycle     *)
(* (discovery, backup invocations, retention cleanup) and the pure         *)
(* functions they use.                                                     *)
(*                                                                         *)
(* A Go string is a sequence of one-character strings: "a,b" is            *)
(* <<"a", ",", "b">>.                                                      *)
(***************************************************************************)
EXTENDS Integers, Sequences, FiniteSets, TLC

(***************************************************************************)
(* Bounds of the model.                                                    *)
(***************************************************************************)
\* the ticker fires at most MaxTicks times in a behaviour
MaxTicks == 3
\* the length of the annotation and policy strings a function is applied to
MaxLen == 4
\* the number of pods the pod list query returns to a discovery applied on its own
MaxPods == 2

(***************************************************************************)
(* Program constants.                                                      *)
(***************************************************************************)
\* make(chan os.Signal, 1)
SigChanCap == 1
\* the channel of a time.Ticker holds one tick
TickerChanCap == 1

AnnotationEnabled == "backup.local-pvc.io/enabled"
AnnotationInclude == "backup.local-pvc.io/include"
AnnotationExclude == "backup.local-pvc.io/exclude"

(***************************************************************************)
(* Strings.                                                                *)
(***************************************************************************)
\* unicode.IsSpace, on the characters the model uses
IsSpace(c) == c \in {" ", "\t", "\n"}

RECURSIVE SplitFrom(_, _, _)
SplitFrom(s, sep, cur) ==
    IF s = <<>> THEN <<cur>>
    ELSE IF Head(s) = sep THEN <<cur>> \o SplitFrom(Tail(s), sep, <<>>)
    ELSE SplitFrom(Tail(s), sep, Append(cur, Head(s)))

\* strings.Split(s, sep) for a one-character separator: Split("", ",") is [""]
Split(s, sep) == SplitFrom(s, sep, <<>>)

RECURSIVE TrimLeft(_)
TrimLeft(s) ==
    IF s # <<>> /\ IsSpace(Head(s)) THEN TrimLeft(Tail(s)) ELSE s

RECURSIVE TrimRight(_)
TrimRight(s) ==
    IF s # <<>> /\ IsSpace(s[Len(s)]) THEN TrimRight(SubSeq(s, 1, Len(s) - 1)) ELSE s

\* strings.TrimSpace
TrimSpace(s) == TrimRight(TrimLeft(s))

\* unicode.ToLower on one character
LowerChar(c) ==
    CASE c = "T" -> "t"
      [] c = "R" -> "r"
      [] c = "U" -> "u"
      [] c = "E" -> "e"
      [] c = "F" -> "f"
      [] c = "A" -> "a"
      [] c = "L" -> "l"
      [] c = "S" -> "s"
      [] OTHER -> c

\* strings.ToLower
ToLower(s) == [i \in 1..Len(s) |-> LowerChar(s[i])]

RECURSIVE JoinWith(_, _)
\* strings.Join(elems, sep)
JoinWith(elems, sep) ==
    IF elems = <<>> THEN <<>>
    ELSE IF Len(elems) = 1 THEN elems[1]
    ELSE elems[1] \o sep \o JoinWith(Tail(elems), sep)

RECURSIVE CleanStack(_, _, _)
\* the element stack filepath.Clean is left with: "." and empty elements are
\* dropped, ".." removes the element before it, is dropped at the root of a
\* rooted path and is kept at the front of a relative one
CleanStack(elems, rooted, stack) ==
    IF elems = <<>> THEN stack
    ELSE LET e == Head(elems) IN
         IF e = <<>> \/ e = <<".">> THEN CleanStack(Tail(elems), rooted, stack)
         ELSE IF e = <<".", ".">> THEN
              IF stack # <<>> /\ stack[Len(stack)] # <<".", ".">>
              THEN CleanStack(Tail(elems), rooted, SubSeq(stack, 1, Len(stack) - 1))
              ELSE IF rooted THEN CleanStack(Tail(elems), rooted, stack)
              ELSE CleanStack(Tail(elems), rooted, Append(stack, e))
         ELSE CleanStack(Tail(elems), rooted, Append(stack, e))

\* filepath.Clean on a Unix path
Clean(path) ==
    LET rooted == path # <<>> /\ Head(path) = "/"
        stack  == CleanStack(Split(path, "/"), rooted, <<>>)
        body   == JoinWith(stack, <<"/">>)
    IN IF rooted THEN <<"/">> \o body
       ELSE IF body = <<>> THEN <<".">>
       ELSE body

\* filepath.Join(a, b): empty elements are ignored, the rest is joined with
\* "/" and cleaned; the join of nothing is ""
FilepathJoin(a, b) ==
    IF a = <<>> /\ b = <<>> THEN <<>>
    ELSE IF a = <<>> THEN Clean(b)
    ELSE IF b = <<>> THEN Clean(a)
    ELSE Clean(a \o <<"/">> \o b)

(***************************************************************************)
(* Annotation policy and discovery (pkg/k8s).                              *)
(***************************************************************************)
\* config.DefaultPVCBackupConfig
DefaultPVCBackupConfig == [Enabled |-> FALSE, Include |-> <<>>, Exclude |-> <<>>]

\* a bug getBackupConfig could have: the value is compared as it is written
getBackupConfig_CaseSensitive(annotations) ==
    LET cfg0 == DefaultPVCBackupConfig
        cfg1 == IF AnnotationEnabled \in DOMAIN annotations
                THEN [cfg0 EXCEPT !.Enabled =
                         (annotations[AnnotationEnabled] = <<"t", "r", "u", "e">>)]
                ELSE cfg0
        cfg2 == IF AnnotationInclude \in DOMAIN annotations
                THEN [cfg1 EXCEPT !.Include = annotations[AnnotationInclude]]
                ELSE cfg1
    IN IF AnnotationExclude \in DOMAIN annotations
       THEN [cfg2 EXCEPT !.Exclude = annotations[AnnotationExclude]]
       ELSE cfg2

\* getBackupConfig: annotations is a function from annotation keys to strings
getBackupConfig(annotations) ==
    LET cfg0 == DefaultPVCBackupConfig
        cfg1 == IF AnnotationEnabled \in DOMAIN annotations
                THEN [cfg0 EXCEPT !.Enabled =
                         (ToLower(annotations[AnnotationEnabled]) = <<"t", "r", "u", "e">>)]
                ELSE cfg0
        cfg2 == IF AnnotationInclude \in DOMAIN annotations
                THEN [cfg1 EXCEPT !.Include = annotations[AnnotationInclude]]
                ELSE cfg1
    IN IF AnnotationExclude \in DOMAIN annotations
       THEN [cfg2 EXCEPT !.Exclude = annotations[AnnotationExclude]]
       ELSE cfg2

\* the directory the local volumes are looked up in
DataRoot == <<"/", "d", "a", "t", "a">>

\* pvcMap[key] = value
MapPut(m, k, v) == [x \in DOMAIN m \cup {k} |-> IF x = k THEN v ELSE m[x]]

EmptyMap == [x \in {} |-> x]

\* a bug GetPVCsToBackup could have: the directory is taken to exist
Stat_AlwaysPresent(cluster, path) == "present"

\* os.Stat on the node: "present", "absent" (os.IsNotExist) or "error"
Stat(cluster, path) ==
    IF path \in DOMAIN cluster.dirs THEN cluster.dirs[path] ELSE "absent"

\* a bug GetPVCsToBackup could have: the map is keyed by the volume of the
\* pod and not by the claim alone
ProcessVolume_KeyByVolume(cluster, ctxDone, pod, cfg, volume, pvcMap) ==
    IF ~volume.HasPVC THEN pvcMap
    ELSE
      LET pvcName == volume.ClaimName
          key     == pod.Namespace \o <<"/">> \o pvcName
          getErr  == \/ ctxDone
                     \/ key \notin DOMAIN cluster.claims
                     \/ cluster.claims[key].getErr
      IN IF getErr THEN pvcMap
         ELSE
           LET pvc == cluster.claims[key] IN
           IF pvc.VolumeName = <<>> THEN pvcMap
           ELSE
             LET pvcPath  == pvc.VolumeName \o <<"_">> \o pod.Namespace
                                 \o <<"_">> \o volume.Name
                 fullPath == FilepathJoin(DataRoot, pvcPath)
             IN IF Stat(cluster, fullPath) = "absent" THEN pvcMap
                ELSE MapPut(pvcMap, key \o <<"/">> \o volume.Name,
                            [Name      |-> pvcName,
                             Namespace |-> pvc.Namespace,
                             Path      |-> fullPath,
                             Config    |-> cfg])

\* the body of the loop over pod.Spec.Volumes: one volume of an enabled pod
ProcessVolume(cluster, ctxDone, pod, cfg, volume, pvcMap) ==
    IF ~volume.HasPVC THEN pvcMap
    ELSE
      LET pvcName == volume.ClaimName
          key     == pod.Namespace \o <<"/">> \o pvcName
          getErr  == \/ ctxDone
                     \/ key \notin DOMAIN cluster.claims
                     \/ cluster.claims[key].getErr
      IN IF getErr THEN pvcMap
         ELSE
           LET pvc == cluster.claims[key] IN
           IF pvc.VolumeName = <<>> THEN pvcMap
           ELSE
             LET pvcPath  == pvc.VolumeName \o <<"_">> \o pod.Namespace
                                 \o <<"_">> \o volume.Name
                 fullPath == FilepathJoin(DataRoot, pvcPath)
             IN IF Stat(cluster, fullPath) = "absent" THEN pvcMap
                ELSE MapPut(pvcMap, key,
                            [Name      |-> pvcName,
                             Namespace |-> pvc.Namespace,
                             Path      |-> fullPath,
                             Config    |-> cfg])

RECURSIVE ProcessVolumes(_, _, _, _, _, _)
ProcessVolumes(cluster, ctxDone, pod, cfg, volumes, pvcMap) ==
    IF volumes = <<>> THEN pvcMap
    ELSE ProcessVolumes(cluster, ctxDone, pod, cfg, Tail(volumes),
             ProcessVolume(cluster, ctxDone, pod, cfg, Head(volumes), pvcMap))

\* the requests the body of the loop over pod.Spec.Volumes makes for one
\* volume of an enabled pod: the Get of the claim object and, once the claim
\* is returned with a volume name, the os.Stat of its directory
VolumeCalls(cluster, ctxDone, pod, volume) ==
    IF ~volume.HasPVC THEN <<>>
    ELSE
      LET pvcName == volume.ClaimName
          key     == pod.Namespace \o <<"/">> \o pvcName
          get     == [op |-> "get", ns |-> pod.Namespace, name |-> pvcName, path |-> <<>>]
          getErr  == \/ ctxDone
                     \/ key \notin DOMAIN cluster.claims
                     \/ cluster.claims[key].getErr
      IN IF getErr THEN <<get>>
         ELSE
           LET pvc == cluster.claims[key] IN
           IF pvc.VolumeName = <<>> THEN <<get>>
           ELSE
             LET pvcPath  == pvc.VolumeName \o <<"_">> \o pod.Namespace
                                 \o <<"_">> \o volume.Name
                 fullPath == FilepathJoin(DataRoot, pvcPath)
             IN <<get, [op |-> "stat", ns |-> pod.Namespace, name |-> pvcName,
                        path |-> fullPath]>>

RECURSIVE PodCalls(_, _, _, _)
PodCalls(cluster, ctxDone, pod, volumes) ==
    IF volumes = <<>> THEN <<>>
    ELSE VolumeCalls(cluster, ctxDone, pod, Head(volumes))
         \o PodCalls(cluster, ctxDone, pod, Tail(volumes))

RECURSIVE DiscoveryCalls(_, _, _)
\* the requests of the loop over pods.Items, in order
DiscoveryCalls(cluster, ctxDone, pods) ==
    IF pods = <<>> THEN <<>>
    ELSE LET pod == Head(pods)
             cfg == getBackupConfig(pod.Annotations)
         IN IF ~cfg.Enabled
            THEN DiscoveryCalls(cluster, ctxDone, Tail(pods))
            ELSE PodCalls(cluster, ctxDone, pod, pod.Volumes)
                 \o DiscoveryCalls(cluster, ctxDone, Tail(pods))

RECURSIVE ProcessPods(_, _, _, _)
RECURSIVE ProcessPods_NoSkip(_, _, _, _)
\* a bug GetPVCsToBackup could have: the volumes of a pod that is not enabled
\* are processed as well
ProcessPods_NoSkip(cluster, ctxDone, pods, pvcMap) ==
    IF pods = <<>> THEN pvcMap
    ELSE LET pod == Head(pods)
             cfg == getBackupConfig(pod.Annotations)
         IN ProcessPods_NoSkip(cluster, ctxDone, Tail(pods),
                ProcessVolumes(cluster, ctxDone, pod, cfg, pod.Volumes, pvcMap))

\* the loop over pods.Items
ProcessPods(cluster, ctxDone, pods, pvcMap) ==
    IF pods = <<>> THEN pvcMap
    ELSE LET pod == Head(pods)
             cfg == getBackupConfig(pod.Annotations)
         IN IF ~cfg.Enabled
            THEN ProcessPods(cluster, ctxDone, Tail(pods), pvcMap)
            ELSE ProcessPods(cluster, ctxDone, Tail(pods),
                     ProcessVolumes(cluster, ctxDone, pod, cfg, pod.Volumes, pvcMap))

\* a bug GetPVCsToBackup could have: the pods of a failed list are processed
\* and returned without an error
GetPVCsToBackup_IgnoreListErr(cluster, ctxDone) ==
    [err |-> FALSE, pvcMap |-> ProcessPods(cluster, ctxDone, cluster.pods, EmptyMap)]

\* a bug GetPVCsToBackup could have: a claim that cannot be fetched or has
\* no volume name fails the discovery as a whole
GetPVCsToBackup_FailOnItem(cluster, ctxDone) ==
    LET calls == DiscoveryCalls(cluster, ctxDone, cluster.pods)
        gets  == { i \in DOMAIN calls : calls[i].op = "get" }
        stats == { i \in DOMAIN calls : calls[i].op = "stat" }
    IN IF cluster.listErr \/ Cardinality(gets) # Cardinality(stats)
       THEN [err |-> TRUE, pvcMap |-> EmptyMap]
       ELSE [err |-> FALSE, pvcMap |-> ProcessPods(cluster, ctxDone, cluster.pods, EmptyMap)]

\* Client.GetPVCsToBackup up to the conversion of the map to a slice: the
\* error it returns and the deduplication map it has built.  cluster.listErr
\* says the pod list query fails; ctxDone says the context is cancelled when
\* the claim objects are fetched.
GetPVCsToBackup(cluster, ctxDone) ==
    IF cluster.listErr THEN [err |-> TRUE, pvcMap |-> EmptyMap]
    ELSE [err |-> FALSE, pvcMap |-> ProcessPods(cluster, ctxDone, cluster.pods, EmptyMap)]

\* "for _, pvc := range pvcMap": the slices Go's map iteration can produce
Orderings(pvcMap) ==
    LET keys == DOMAIN pvcMap
        n    == Cardinality(keys)
    IN { [i \in 1..n |-> pvcMap[f[i]]] :
           f \in { g \in [1..n -> keys] : \A i, j \in 1..n : g[i] = g[j] => i = j } }

(***************************************************************************)
(* The clusters a discovery pass of the service model can meet.             *)
(***************************************************************************)
NsDefault == <<"n", "s">>

EnabledTrue == <<"t", "r", "u", "e">>

Pod(name, annotations, volumes) ==
    [Namespace |-> NsDefault, Name |-> name, Annotations |-> annotations,
     Volumes |-> volumes]

ClaimVolume(name, claim) == [Name |-> name, HasPVC |-> TRUE, ClaimName |-> claim]

\* a volume that is no persistent volume claim (a config map, an emptyDir)
OtherVolume(name) == [Name |-> name, HasPVC |-> FALSE, ClaimName |-> <<>>]

BoundClaim(pv) ==
    [getErr |-> FALSE, VolumeName |-> pv, Namespace |-> NsDefault, Annotations |-> EmptyMap]

KeyC1 == NsDefault \o <<"/", "c", "1">>
KeyC2 == NsDefault \o <<"/", "c", "2">>
PathP1 == <<"/", "d", "a", "t", "a", "/", "p", "1", "_", "n", "s", "_", "v">>
PathP2 == <<"/", "d", "a", "t", "a", "/", "p", "2", "_", "n", "s", "_", "v">>

\* one enabled pod with claim c1, no include, two exclude patterns
PodA ==
    Pod(<<"a">>,
        (AnnotationEnabled :> EnabledTrue) @@
        (AnnotationExclude :> <<"t", "/", "*", ",", "*", ".", "l">>),
        <<OtherVolume(<<"k">>), ClaimVolume(<<"v">>, <<"c", "1">>)>>)

\* an enabled pod with claim c2 and the include list "a, b"
PodB ==
    Pod(<<"b">>,
        (AnnotationEnabled :> <<"T", "r", "u", "e">>) @@
        (AnnotationInclude :> <<"a", ",", " ", "b">>),
        <<ClaimVolume(<<"v">>, <<"c", "2">>)>>)

\* a pod that is not enabled
PodC ==
    Pod(<<"c">>,
        (AnnotationEnabled :> <<"n", "o">>),
        <<ClaimVolume(<<"v">>, <<"c", "2">>)>>)

ClaimsBoth == (KeyC1 :> BoundClaim(<<"p", "1">>)) @@ (KeyC2 :> BoundClaim(<<"p", "2">>))

DirsBoth == (PathP1 :> "present") @@ (PathP2 :> "present")

Cluster(listErr, pods) ==
    [listErr |-> listErr, pods |-> pods, claims |-> ClaimsBoth, dirs |-> DirsBoth]

\* what the cluster and the node look like when a cycle queries them
Clusters ==
    { Cluster(TRUE, <<PodA, PodB>>),
      Cluster(FALSE, <<>>),
      Cluster(FALSE, <<PodC>>),
      Cluster(FALSE, <<PodA>>),
      Cluster(FALSE, <<PodA, PodC, PodB>>) }

\* the values of BACKUP_RETENTION the model runs with: "14d", "7d, 4w" and ""
Retentions ==
    { <<"1", "4", "d">>, <<"7", "d", ",", " ", "4", "w">>, <<>> }

\* the two ways performBackups invokes the backup: once per volume, or once
\* for all the volumes of the cycle
Modes == {"perVolume", "batched"}

(***************************************************************************)
(* The state of the service.                                               *)
(***************************************************************************)
VARIABLES
    mode,             \* how performBackups invokes the backup (fixed)
    retention,        \* Manager.retention (fixed)
    pc,               \* where the main goroutine is
    bootLog,          \* the check and init invocations of EnsureRepository
    ensureCalls,      \* how often EnsureRepository was called
    ensureErr,        \* what EnsureRepository returned: "none", "nil", "err"
    cancelled,        \* ctx.Done() is closed
    sigChan,          \* signals buffered in sigChan
    sigPc,            \* the signal goroutine: "notstarted", "waiting", "done"
    tickerOn,         \* the ticker exists and is not stopped
    tickChan,         \* ticks buffered in ticker.C
    ticks,            \* ticks fired so far
    cycle,            \* calls of performBackups so far
    initial,          \* the running or last cycle is the initial one
    ctxAtStart,       \* ctx was cancelled when the current cycle started
    ticksAtStart,     \* ticks fired when the current cycle started
    pvcs,             \* the slice discovery returned to the current cycle
    idx,              \* the index of the volume being backed up
    backupPaths,      \* performBackups' backupPaths
    excludePatterns,  \* performBackups' excludePatterns
    trace,            \* the invocations of the current cycle, in order
    cycleErr,         \* what performBackups returned: "none" (running), "nil", "err"
    prevErr,          \* cycleErr of the cycle before the current one
    call              \* a function applied on its own: its name, input and result

vars == <<mode, retention, pc, bootLog, ensureCalls, ensureErr, cancelled, sigChan,
          sigPc, tickerOn, tickChan, ticks, cycle, initial, ctxAtStart, ticksAtStart, pvcs, idx,
          backupPaths, excludePatterns, trace, cycleErr, prevErr, call>>

configVars == <<mode, retention>>
serviceVars == <<mode, retention, pc, bootLog, ensureCalls, ensureErr, cancelled,
                 sigChan, sigPc, tickerOn, tickChan, ticks, cycle, initial, ctxAtStart, ticksAtStart,
                 pvcs, idx, backupPaths, excludePatterns, trace, cycleErr, prevErr>>
bootVars   == <<bootLog, ensureCalls, ensureErr>>
signalVars == <<cancelled, sigChan, sigPc>>
tickerVars == <<tickerOn, tickChan, ticks>>
cycleVars  == <<cycle, initial, ctxAtStart, ticksAtStart, pvcs, idx, backupPaths, excludePatterns,
                trace, cycleErr, prevErr>>

\* the results of an invocation that are a failure to its caller: a failure of
\* its own, the kill of the running command when ctx is cancelled, and the
\* refusal to start under a cancelled ctx
Failures == {"fail", "killed", "refused"}

\* an invocation: the pod list query, a backup command or the forget call
Ev(op, paths, excludes, keep, res) ==
    [op |-> op, paths |-> paths, excludes |-> excludes, keep |-> keep, res |-> res]

SetRes(tr, r) == [tr EXCEPT ![Len(tr)].res = r]

\* the state of the running cycle, as the operators below transform it
CS == [pc |-> pc, trace |-> trace, pvcs |-> pvcs, idx |-> idx,
       backupPaths |-> backupPaths, excludePatterns |-> excludePatterns,
       cycleErr |-> cycleErr]

SetCS(n) ==
    /\ pc' = n.pc
    /\ trace' = n.trace
    /\ pvcs' = n.pvcs
    /\ idx' = n.idx
    /\ backupPaths' = n.backupPaths
    /\ excludePatterns' = n.excludePatterns
    /\ cycleErr' = n.cycleErr

(***************************************************************************)
(* pkg/restic: the arguments of the commands.                              *)
(***************************************************************************)
KeepWithin == <<"-", "-", "k", "e", "e", "p", "-", "w", "i", "t", "h", "i", "n">>

RECURSIVE KeepFlagsOf(_)
KeepFlagsOf(policies) ==
    IF policies = <<>> THEN <<>>
    ELSE LET policy == TrimSpace(Head(policies)) IN
         IF policy = <<>> THEN KeepFlagsOf(Tail(policies))
         ELSE <<KeepWithin, policy>> \o KeepFlagsOf(Tail(policies))

\* Client.Forget: the keepFlags of a retention policy
KeepFlags(ret) == KeepFlagsOf(Split(ret, ","))

RECURSIVE ExcludeArgs(_)
\* Client.Backup: one --exclude per pattern that is not empty
ExcludeArgs(patterns) ==
    IF patterns = <<>> THEN <<>>
    ELSE IF Head(patterns) # <<>> THEN <<Head(patterns)>> \o ExcludeArgs(Tail(patterns))
    ELSE ExcludeArgs(Tail(patterns))

(***************************************************************************)
(* pkg/backup: one cycle.                                                  *)
(***************************************************************************)
RECURSIVE JoinPatterns(_, _)
RECURSIVE JoinPatterns_NoTrim(_, _)
\* a bug processPatterns could have: the segments are joined as they are
\* split, whitespace included
JoinPatterns_NoTrim(basePath, patterns) ==
    IF patterns = <<>> THEN <<>>
    ELSE LET pattern == Head(patterns) IN
         IF TrimSpace(pattern) = <<>> THEN JoinPatterns_NoTrim(basePath, Tail(patterns))
         ELSE <<FilepathJoin(basePath, pattern)>> \o JoinPatterns_NoTrim(basePath, Tail(patterns))

JoinPatterns(basePath, patterns) ==
    IF patterns = <<>> THEN <<>>
    ELSE LET pattern == TrimSpace(Head(patterns)) IN
         IF pattern = <<>> THEN JoinPatterns(basePath, Tail(patterns))
         ELSE <<FilepathJoin(basePath, pattern)>> \o JoinPatterns(basePath, Tail(patterns))

\* Manager.processPatterns
processPatterns(basePath, patternStr) ==
    IF patternStr = <<>> THEN <<>>
    ELSE JoinPatterns(basePath, Split(patternStr, ","))

\* performBackups returns
Return(cs, err) ==
    [cs EXCEPT !.pc = "returned", !.cycleErr = IF err THEN "err" ELSE "nil"]

\* a bug performBackups could have: a failed cleanup fails the cycle
AfterForget_FailsCycle(cs, r) == Return(cs, r \in Failures)

\* performBackups after Forget has returned r: the error is logged only
AfterForget(cs, r) == Return(cs, FALSE)

\* a bug Client.Forget could have: the command is run whatever the flags
CallForget_AlwaysRuns(cs, ctxDone) ==
    LET keep == KeepFlags(retention) IN
    IF ctxDone
    THEN AfterForget([cs EXCEPT !.trace = Append(@, Ev("forget", <<>>, <<>>, keep, "refused"))],
                     "refused")
    ELSE [cs EXCEPT !.trace = Append(@, Ev("forget", <<>>, <<>>, keep, "running")),
                    !.pc = "forget"]

\* performBackups calls Client.Forget: no command is run for a policy without
\* a token; under a cancelled ctx the command is not started
CallForget(cs, ctxDone) ==
    LET keep == KeepFlags(retention) IN
    IF keep = <<>>
    THEN AfterForget([cs EXCEPT !.trace = Append(@, Ev("forget", <<>>, <<>>, keep, "noop"))],
                     "noop")
    ELSE IF ctxDone
    THEN AfterForget([cs EXCEPT !.trace = Append(@, Ev("forget", <<>>, <<>>, keep, "refused"))],
                     "refused")
    ELSE [cs EXCEPT !.trace = Append(@, Ev("forget", <<>>, <<>>, keep, "running")),
                    !.pc = "forget"]

\* a bug performBackups could have: the exclude segments are passed as they
\* are written, relative to no volume
AddPVC_RawExcludes(cs, pvc) ==
    [cs EXCEPT
       !.backupPaths = IF pvc.Config.Include = <<>>
                       THEN Append(@, pvc.Path)
                       ELSE @ \o processPatterns(pvc.Path, pvc.Config.Include),
       !.excludePatterns = @ \o processPatterns(<<>>, pvc.Config.Exclude)]

\* the paths and excludes one volume adds to backupPaths and excludePatterns
AddPVC(cs, pvc) ==
    [cs EXCEPT
       !.backupPaths = IF pvc.Config.Include = <<>>
                       THEN Append(@, pvc.Path)
                       ELSE @ \o processPatterns(pvc.Path, pvc.Config.Include),
       !.excludePatterns = @ \o processPatterns(pvc.Path, pvc.Config.Exclude)]

RECURSIVE AddAllPVCs(_, _)
AddAllPVCs(cs, list) ==
    IF list = <<>> THEN cs ELSE AddAllPVCs(AddPVC(cs, Head(list)), Tail(list))

RECURSIVE AfterBackup(_, _, _)

\* performBackups calls Client.Backup with backupPaths and excludePatterns
CallBackup(cs, ctxDone) ==
    LET ev(r) == Ev("backup", cs.backupPaths, ExcludeArgs(cs.excludePatterns), <<>>, r) IN
    IF ctxDone
    THEN AfterBackup([cs EXCEPT !.trace = Append(@, ev("refused"))], "refused", ctxDone)
    ELSE [cs EXCEPT !.trace = Append(@, ev("running")), !.pc = "backup"]

\* the per-volume loop enters the iteration of the next volume
NextVolume(cs, ctxDone) ==
    LET n == [cs EXCEPT !.idx = @ + 1] IN
    CallBackup(AddPVC(n, n.pvcs[n.idx]), ctxDone)

\* a bug performBackups could have: a failed backup is skipped over and the
\* cycle goes on with the next volume and the cleanup
AfterBackup_Continues(cs, r, ctxDone) ==
    IF mode = "perVolume" /\ cs.idx < Len(cs.pvcs)
    THEN NextVolume([cs EXCEPT !.backupPaths = <<>>, !.excludePatterns = <<>>], ctxDone)
    ELSE CallForget(cs, ctxDone)

\* a bug performBackups could have: the cleanup runs inside the loop, after
\* the backup of each volume
AfterBackup_ForgetEach(cs, r, ctxDone) ==
    IF r \in Failures THEN Return(cs, TRUE)
    ELSE IF mode = "perVolume" /\ cs.idx < Len(cs.pvcs)
    THEN NextVolume([cs EXCEPT
                       !.trace = Append(@, Ev("forget", <<>>, <<>>, KeepFlags(retention), "ok")),
                       !.backupPaths = <<>>, !.excludePatterns = <<>>], ctxDone)
    ELSE CallForget(cs, ctxDone)

\* a bug performBackups could have: no cleanup after the backups
AfterBackup_NoForget(cs, r, ctxDone) ==
    IF r \in Failures THEN Return(cs, TRUE)
    ELSE IF mode = "perVolume" /\ cs.idx < Len(cs.pvcs)
    THEN NextVolume([cs EXCEPT !.backupPaths = <<>>, !.excludePatterns = <<>>], ctxDone)
    ELSE Return(cs, FALSE)

\* a bug performBackups could have: backupPaths and excludePatterns are
\* declared outside the loop and keep what the earlier volumes added
AfterBackup_NoReset(cs, r, ctxDone) ==
    IF r \in Failures THEN Return(cs, TRUE)
    ELSE IF mode = "perVolume" /\ cs.idx < Len(cs.pvcs)
    THEN NextVolume(cs, ctxDone)
    ELSE CallForget(cs, ctxDone)

\* performBackups after Client.Backup has returned r: an error ends the
\* cycle; otherwise the next volume (per-volume mode) or the cleanup follows
AfterBackup(cs, r, ctxDone) ==
    IF r \in Failures THEN Return(cs, TRUE)
    ELSE IF mode = "perVolume" /\ cs.idx < Len(cs.pvcs)
    THEN NextVolume([cs EXCEPT !.backupPaths = <<>>, !.excludePatterns = <<>>], ctxDone)
    ELSE CallForget(cs, ctxDone)

\* performBackups after GetPVCsToBackup has returned (list, err)
AfterDiscovery(cs, err, list, ctxDone) ==
    IF err THEN Return(cs, TRUE)
    ELSE
      LET n == [cs EXCEPT !.pvcs = list, !.idx = 0,
                          !.backupPaths = <<>>, !.excludePatterns = <<>>] IN
      IF Len(list) = 0 THEN Return(n, FALSE)
      ELSE IF mode = "perVolume" THEN NextVolume(n, ctxDone)
      ELSE CallBackup(AddAllPVCs(n, list), ctxDone)

(***************************************************************************)
(* Initial state: the process has parsed its configuration and is about to *)
(* run runBackupService.                                                   *)
(***************************************************************************)
ProcessStart ==
    /\ pc = "start"
    /\ bootLog = <<>>
    /\ ensureCalls = 0
    /\ ensureErr = "none"
    /\ cancelled = FALSE
    /\ sigChan = 0
    /\ sigPc = "notstarted"
    /\ tickerOn = FALSE
    /\ tickChan = 0
    /\ ticks = 0
    /\ cycle = 0
    /\ initial = FALSE
    /\ ctxAtStart = FALSE
    /\ ticksAtStart = 0
    /\ pvcs = <<>>
    /\ idx = 0
    /\ backupPaths = <<>>
    /\ excludePatterns = <<>>
    /\ trace = <<>>
    /\ cycleErr = "none"
    /\ prevErr = "none"

\* no function is being applied on its own
NoCall == [fn |-> "none", in |-> <<>>, out |-> <<>>, done |-> FALSE]

Init ==
    /\ mode \in Modes
    /\ retention \in Retentions
    /\ ProcessStart
    /\ call = NoCall

(***************************************************************************)
(* Repository bootstrap: NewManager calls EnsureRepository under            *)
(* context.Background().                                                   *)
(***************************************************************************)
\* runBackupService calls NewManager, which calls EnsureRepository, which
\* starts the check command
NewManager ==
    /\ pc = "start"
    /\ ensureCalls' = ensureCalls + 1
    /\ bootLog' = Append(bootLog, [op |-> "check", res |-> "running"])
    /\ pc' = "check"
    /\ UNCHANGED <<configVars, call, ensureErr, signalVars, tickerVars, cycleVars>>

\* a bug NewManager could have: the error of EnsureRepository is dropped
\* and the manager is returned
NewManagerReturns_IgnoresErr(err) ==
    /\ pc' = "created"
    /\ sigPc' = "waiting"
    /\ UNCHANGED <<cancelled, sigChan>>

\* NewManager after EnsureRepository has returned.  On an error it returns
\* the error and runBackupService ends in log.Fatalf; otherwise the manager
\* exists and runBackupService creates the context, registers the signals
\* and starts the signal goroutine
NewManagerReturns(err) ==
    IF err
    THEN /\ pc' = "fatal"
         /\ UNCHANGED signalVars
    ELSE /\ pc' = "created"
         /\ sigPc' = "waiting"
         /\ UNCHANGED <<cancelled, sigChan>>

\* Client.InitRepository is called
CallInit(r) ==
    /\ bootLog' = Append(SetRes(bootLog, r), [op |-> "init", res |-> "running"])
    /\ pc' = "init"
    /\ UNCHANGED <<ensureErr, signalVars>>

\* a bug EnsureRepository could have: init runs whatever the check said
EnsureAfterCheck_AlwaysInit(r) == CallInit(r)

\* EnsureRepository after Check has returned r
EnsureAfterCheck(r) ==
    IF r = "fail"
    THEN CallInit(r)
    ELSE /\ bootLog' = SetRes(bootLog, r)
         /\ ensureErr' = "nil"
         /\ NewManagerReturns(FALSE)

\* the check command returns
CheckReturns ==
    /\ pc = "check"
    /\ \E r \in {"ok", "fail"} : EnsureAfterCheck(r)
    /\ UNCHANGED <<configVars, call, ensureCalls, tickerVars, cycleVars>>

\* EnsureRepository returns what InitRepository returned
EnsureAfterInit(r) ==
    /\ bootLog' = SetRes(bootLog, r)
    /\ ensureErr' = IF r = "fail" THEN "err" ELSE "nil"
    /\ NewManagerReturns(r = "fail")

\* the init command returns
InitReturns ==
    /\ pc = "init"
    /\ \E r \in {"ok", "fail"} : EnsureAfterInit(r)
    /\ UNCHANGED <<configVars, call, ensureCalls, tickerVars, cycleVars>>

(***************************************************************************)
(* Signals and the ticker.                                                 *)
(***************************************************************************)
\* the process is running runBackupService past signal.Notify (a signal that
\* arrives earlier ends the process by its default action)
Serving == pc \notin {"start", "check", "init", "fatal", "stopped"}

\* SIGINT or SIGTERM is delivered: signal.Notify drops it when sigChan is full
Signal ==
    /\ Serving
    /\ sigChan < SigChanCap
    /\ sigChan' = sigChan + 1
    /\ UNCHANGED <<configVars, call, pc, bootVars, cancelled, sigPc, tickerVars, cycleVars>>

\* the signal goroutine receives the signal and calls cancel()
SignalHandler ==
    /\ Serving
    /\ sigPc = "waiting"
    /\ sigChan > 0
    /\ sigChan' = sigChan - 1
    /\ cancelled' = TRUE
    /\ sigPc' = "done"
    /\ UNCHANGED <<configVars, call, pc, bootVars, tickerVars, cycleVars>>

\* a bug the ticker could have: every tick is queued
Tick_PilesUp ==
    /\ tickerOn
    /\ ticks < MaxTicks
    /\ ticks' = ticks + 1
    /\ tickChan' = tickChan + 1
    /\ UNCHANGED <<configVars, call, pc, bootVars, signalVars, tickerOn, cycleVars>>

\* the ticker fires: the tick is dropped when ticker.C is full
Tick ==
    /\ tickerOn
    /\ ticks < MaxTicks
    /\ ticks' = ticks + 1
    /\ tickChan' = IF tickChan < TickerChanCap THEN tickChan + 1 ELSE tickChan
    /\ UNCHANGED <<configVars, call, pc, bootVars, signalVars, tickerOn, cycleVars>>

(***************************************************************************)
(* StartBackupLoop and performBackups.                                     *)
(***************************************************************************)
\* performBackups is entered and GetPVCsToBackup sends the pod list query,
\* which fails at once under a cancelled ctx
BeginCycle(first) ==
    /\ cycle' = cycle + 1
    /\ initial' = first
    /\ ctxAtStart' = cancelled
    /\ ticksAtStart' = ticks
    /\ prevErr' = cycleErr
    /\ LET ev(r) == Ev("list", <<>>, <<>>, <<>>, r)
           n == [CS EXCEPT !.pvcs = <<>>, !.idx = 0, !.backupPaths = <<>>,
                           !.excludePatterns = <<>>, !.cycleErr = "none"]
       IN IF cancelled
          THEN SetCS(AfterDiscovery([n EXCEPT !.trace = <<ev("refused")>>],
                                    TRUE, <<>>, cancelled))
          ELSE SetCS([n EXCEPT !.trace = <<ev("running")>>, !.pc = "list"])

\* a bug StartBackupLoop could have: the ticker is created first and the
\* first cycle waits for the first tick
StartBackupLoop_TickerFirst ==
    /\ pc = "created"
    /\ pc' = "select"
    /\ tickerOn' = TRUE
    /\ UNCHANGED <<configVars, call, bootVars, signalVars, tickChan, ticks, cycleVars>>

\* StartBackupLoop is called and runs the initial cycle
StartBackupLoop ==
    /\ pc = "created"
    /\ BeginCycle(TRUE)
    /\ UNCHANGED <<configVars, call, bootVars, signalVars, tickerVars>>

\* the pod list query returns and GetPVCsToBackup goes through the pods; a
\* query in flight when ctx is cancelled may be aborted
ListReturns ==
    /\ pc = "list"
    /\ \E cluster \in Clusters, aborted \in {FALSE, cancelled} :
         LET d == GetPVCsToBackup([cluster EXCEPT !.listErr = @ \/ aborted], cancelled)
             r == IF aborted THEN "killed" ELSE IF cluster.listErr THEN "fail" ELSE "ok"
             n == [CS EXCEPT !.trace = SetRes(@, r)]
         IN \E list \in Orderings(d.pvcMap) :
              SetCS(AfterDiscovery(n, d.err, list, cancelled))
    /\ UNCHANGED <<configVars, call, bootVars, signalVars, tickerVars, cycle, initial, ctxAtStart, ticksAtStart, prevErr>>

\* how a command that runs under ctx can end: by itself, or killed once ctx
\* is cancelled
Outcomes == {"ok", "fail"} \cup (IF cancelled THEN {"killed"} ELSE {})

\* the backup command returns
BackupReturns ==
    /\ pc = "backup"
    /\ \E r \in Outcomes :
         SetCS(AfterBackup([CS EXCEPT !.trace = SetRes(@, r)], r, cancelled))
    /\ UNCHANGED <<configVars, call, bootVars, signalVars, tickerVars, cycle, initial, ctxAtStart, ticksAtStart, prevErr>>

\* the forget command returns
ForgetReturns ==
    /\ pc = "forget"
    /\ \E r \in Outcomes :
         SetCS(AfterForget([CS EXCEPT !.trace = SetRes(@, r)], r))
    /\ UNCHANGED <<configVars, call, bootVars, signalVars, tickerVars, cycle, initial, ctxAtStart, ticksAtStart, prevErr>>

\* a bug StartBackupLoop could have: the error of a cycle is returned, which
\* runBackupService answers with log.Fatalf
LoopContinue_ReturnsErr ==
    /\ pc = "returned"
    /\ IF cycleErr = "err"
       THEN pc' = "fatal" /\ tickerOn' = FALSE
       ELSE pc' = "select" /\ tickerOn' = (initial \/ tickerOn)
    /\ UNCHANGED <<configVars, call, bootVars, signalVars, tickChan, ticks, cycleVars>>

\* performBackups has returned to StartBackupLoop: an error is logged; after
\* the initial cycle the ticker is created; the loop reaches its select
LoopContinue ==
    /\ pc = "returned"
    /\ pc' = "select"
    /\ tickerOn' = (initial \/ tickerOn)
    /\ UNCHANGED <<configVars, call, bootVars, signalVars, tickChan, ticks, cycleVars>>

\* a bug StartBackupLoop could have: the ctx.Done() case leaves the select
\* and not the loop
SelectDone_StaysInLoop ==
    /\ pc = "select"
    /\ cancelled
    /\ UNCHANGED vars

\* select takes <-ctx.Done(): StartBackupLoop returns nil, the deferred
\* ticker.Stop() runs
SelectDone ==
    /\ pc = "select"
    /\ cancelled
    /\ pc' = "stopped"
    /\ tickerOn' = FALSE
    /\ UNCHANGED <<configVars, call, bootVars, signalVars, tickChan, ticks, cycleVars>>

\* a bug StartBackupLoop could have: each tick starts a cycle of its own,
\* whether or not the cycle before it has returned
SelectTick_Overlapping ==
    /\ pc \in {"select", "list", "backup", "forget"}
    /\ tickChan > 0
    /\ tickChan' = tickChan - 1
    /\ BeginCycle(FALSE)
    /\ UNCHANGED <<configVars, call, bootVars, signalVars, tickerOn, ticks>>

\* select takes <-ticker.C and the next cycle starts; when ctx.Done() is
\* ready as well, select takes either case
SelectTick ==
    /\ pc = "select"
    /\ tickChan > 0
    /\ tickChan' = tickChan - 1
    /\ BeginCycle(FALSE)
    /\ UNCHANGED <<configVars, call, bootVars, signalVars, tickerOn, ticks>>

Next ==
    \/ NewManager
    \/ CheckReturns
    \/ InitReturns
    \/ Signal
    \/ SignalHandler
    \/ Tick
    \/ StartBackupLoop
    \/ ListReturns
    \/ BackupReturns
    \/ ForgetReturns
    \/ LoopContinue
    \/ SelectDone
    \/ SelectTick

Spec == Init /\ [][Next]_vars

(***************************************************************************)
(* Functions applied on their own: the input is drawn in the initial       *)
(* state, the one action applies the function to it.                       *)
(***************************************************************************)
\* function fn is about to be applied to one of inputs
Applying(fn, inputs) ==
    /\ mode = "perVolume"
    /\ retention = <<"1", "4", "d">>
    /\ ProcessStart
    /\ call \in { [fn |-> fn, in |-> i, out |-> <<>>, done |-> FALSE] : i \in inputs }

\* function fn returns result
Returns(fn, result) ==
    /\ call.fn = fn
    /\ ~call.done
    /\ call' = [call EXCEPT !.out = result, !.done = TRUE]
    /\ UNCHANGED serviceVars

\* an annotation that may be absent
Optional(values) ==
    {[present |-> FALSE, value |-> <<>>]} \cup { [present |-> TRUE, value |-> x] : x \in values }

WithKey(m, k, o) == IF o.present THEN MapPut(m, k, o.value) ELSE m

\* values of the enabled annotation: "true" in every case, and others
EnabledValues ==
    { <<a, b, c, d>> : a \in {"t", "T"}, b \in {"r", "R"}, c \in {"u", "U"}, d \in {"e", "E"} }
    \cup { <<>>, <<"f", "a", "l", "s", "e">>, <<"F", "A", "L", "S", "E">>, <<"y", "e", "s">>,
           <<"1">>, <<"t">>, <<"t", "r", "u">>, <<"t", "r", "u", "e", "e">>,
           <<"t", "r", "u", "e", " ">>, <<" ", "t", "r", "u", "e">>, <<"t", "r", "e", "u">> }

\* values of the include and the exclude annotation
ListValues == { <<>>, <<"a", ",", "b">>, <<" ", ",">> }

AnnotationMaps ==
    { WithKey(WithKey(WithKey(EmptyMap, AnnotationEnabled, e), AnnotationInclude, i),
              AnnotationExclude, x) :
        e \in Optional(EnabledValues), i \in Optional(ListValues), x \in Optional(ListValues) }

PolicyInit == Applying("getBackupConfig", AnnotationMaps)

ResolvePolicy == Returns("getBackupConfig", getBackupConfig(call.in))

PolicyNext == ResolvePolicy

PolicySpec == PolicyInit /\ [][PolicyNext]_vars

\* the characters of the strings the functions below are applied to
Alphabet == {"a", ",", " ", "/", "."}

\* the strings of at most n characters
Texts(n) == UNION { [1..k -> Alphabet] : k \in 0..n }

\* "d,c" and "t/*,*.l", after the README's include and exclude examples
ExampleInclude == <<"d", ",", "c">>
ExampleExclude == <<"t", "/", "*", ",", "*", ".", "l">>

\* an entry of GetPVCsToBackup
PVCOf(path, include, exclude) ==
    [Name |-> <<"c", "1">>, Namespace |-> NsDefault, Path |-> path,
     Config |-> [Enabled |-> TRUE, Include |-> include, Exclude |-> exclude]]

\* one eligible volume, with any include or any exclude annotation
EligibleVolumes ==
    { PVCOf(PathP1, i, <<>>) : i \in Texts(MaxLen) \cup {ExampleInclude} }
    \cup { PVCOf(PathP1, <<>>, x) : x \in Texts(MaxLen) \cup {ExampleExclude} }
    \cup { PVCOf(PathP1, ExampleInclude, ExampleExclude) }

VolumeInit == Applying("performBackups", EligibleVolumes)

\* performBackups with discovery returning the one volume: the iteration of
\* the volume, up to its call of Client.Backup
BackupVolume ==
    LET cs == NextVolume([pc |-> "list", trace |-> <<>>, pvcs |-> <<call.in>>, idx |-> 0,
                          backupPaths |-> <<>>, excludePatterns |-> <<>>,
                          cycleErr |-> "none"], FALSE)
    IN Returns("performBackups", cs.trace[Len(cs.trace)])

VolumeNext == BackupVolume

VolumeSpec == VolumeInit /\ [][VolumeNext]_vars

\* the include annotations of the volumes of a batch: absent, "a, b", the
\* README's example, and a list without any segment
BatchIncludes == { <<>>, <<"a", ",", " ", "b">>, ExampleInclude, <<",">> }

\* the exclude annotations of the volumes of a batch
BatchExcludes == { <<>>, ExampleExclude }

\* the eligible volumes with the given host path
BatchVolumes(name, path) ==
    { [PVCOf(path, i, x) EXCEPT !.Name = name] : i \in BatchIncludes, x \in BatchExcludes }

\* what GetPVCsToBackup returns to a batched cycle: one or two volumes, in
\* either order
Batches ==
    LET V1 == BatchVolumes(<<"c", "1">>, PathP1)
        V2 == BatchVolumes(<<"c", "2">>, PathP2)
    IN { <<v>> : v \in V1 \cup V2 }
       \cup { <<v, w>> : v \in V1, w \in V2 }
       \cup { <<w, v>> : v \in V1, w \in V2 }

BatchInit == Applying("performBackups (batched)", Batches)

\* the batched performBackups with discovery returning the volumes: the loop
\* over the volumes and the call of Client.Backup that follows it
BackupBatch ==
    LET cs == CallBackup(AddAllPVCs([pc |-> "list", trace |-> <<>>, pvcs |-> call.in,
                                     idx |-> 0, backupPaths |-> <<>>,
                                     excludePatterns |-> <<>>, cycleErr |-> "none"],
                                    call.in), FALSE)
    IN Returns("performBackups (batched)", cs.trace)

BatchSpec == BatchInit /\ [][BackupBatch]_vars

\* a second namespace
NsOther == <<"n", "2">>

\* an enabled pod that mounts claim c1 under two volume names
PodTwoNames ==
    Pod(<<"d">>,
        (AnnotationEnabled :> EnabledTrue) @@ (AnnotationInclude :> <<"a">>),
        <<ClaimVolume(<<"w">>, <<"c", "1">>), ClaimVolume(<<"v">>, <<"c", "1">>)>>)

\* an enabled pod of the second namespace that mounts its claim c1
PodOtherNs ==
    [Pod(<<"e">>, (AnnotationEnabled :> EnabledTrue), <<ClaimVolume(<<"v">>, <<"c", "1">>)>>)
        EXCEPT !.Namespace = NsOther]

\* an enabled pod that mounts a claim without a volume name (c3) and a claim
\* the API server returns an error for (c4)
PodUnbound ==
    Pod(<<"f">>, (AnnotationEnabled :> EnabledTrue),
        <<ClaimVolume(<<"v">>, <<"c", "3">>), ClaimVolume(<<"v">>, <<"c", "4">>)>>)

\* an enabled pod that mounts the two claims c2 and c1
PodTwoClaims ==
    Pod(<<"g">>, (AnnotationEnabled :> EnabledTrue),
        <<ClaimVolume(<<"v">>, <<"c", "2">>), ClaimVolume(<<"v">>, <<"c", "1">>)>>)

PodPool == {PodA, PodB, PodC, PodTwoNames, PodOtherNs, PodUnbound, PodTwoClaims}

\* the claims of the two namespaces; claim c2 carries the enabled annotation
\* itself
ClaimsAll ==
    (KeyC2 :> [BoundClaim(<<"p", "2">>) EXCEPT !.Annotations = (AnnotationEnabled :> EnabledTrue)])
    @@ ClaimsBoth
    @@ ((NsOther \o <<"/", "c", "1">>) :> [BoundClaim(<<"p", "3">>) EXCEPT !.Namespace = NsOther])
    @@ ((NsDefault \o <<"/", "c", "3">>) :> BoundClaim(<<>>))
    @@ ((NsDefault \o <<"/", "c", "4">>) :> [BoundClaim(<<"p", "4">>) EXCEPT !.getErr = TRUE])

PathP1w == <<"/", "d", "a", "t", "a", "/", "p", "1", "_", "n", "s", "_", "w">>
PathP3  == <<"/", "d", "a", "t", "a", "/", "p", "3", "_", "n", "2", "_", "v">>

\* what os.Stat finds below /data: every directory; the directories of c1
\* only, with an error other than not-exist for that of c2; the directories
\* of the two claims c1 under volume name v only; the directory of c1 under
\* volume name w, with an error other than not-exist under v; no directory
NodeDirs ==
    { DirsBoth @@ (PathP1w :> "present") @@ (PathP3 :> "present"),
      (PathP1 :> "present") @@ (PathP1w :> "present") @@ (PathP2 :> "error"),
      (PathP1 :> "present") @@ (PathP3 :> "present"),
      (PathP1 :> "error") @@ (PathP1w :> "present"),
      EmptyMap }

\* the values of BACKUP_STORAGE_PATH: the default /data, and /mnt
StoragePaths == { DataRoot, <<"/", "m", "n", "t">> }

\* the lists of at most n pods
PodLists(n) == UNION { [1..k -> PodPool] : k \in 0..n }

\* the clusters and contexts GetPVCsToBackup is applied to
Discoveries ==
    { [cluster |-> [listErr |-> e, pods |-> ps, claims |-> ClaimsAll, dirs |-> d],
       ctxDone |-> c, storagePath |-> sp] :
        e \in BOOLEAN, ps \in PodLists(MaxPods), d \in NodeDirs, c \in BOOLEAN,
        sp \in StoragePaths }

DiscoveryInit == Applying("GetPVCsToBackup", Discoveries)

\* GetPVCsToBackup returns its error and the slice made of the map
Discover ==
    LET d == GetPVCsToBackup(call.in.cluster, call.in.ctxDone) IN
    \E list \in Orderings(d.pvcMap) :
        Returns("GetPVCsToBackup",
                [err |-> d.err, pvcs |-> list,
                 calls |-> IF call.in.cluster.listErr THEN <<>>
                           ELSE DiscoveryCalls(call.in.cluster, call.in.ctxDone,
                                               call.in.cluster.pods)])

DiscoveryNext == Discover

DiscoverySpec == DiscoveryInit /\ [][DiscoveryNext]_vars

\* an enabled pod whose first claim (c4) cannot be fetched and whose second
\* claim is c1
PodGetErrFirst ==
    Pod(<<"h">>, (AnnotationEnabled :> EnabledTrue) @@ (AnnotationInclude :> <<"a">>),
        <<ClaimVolume(<<"v">>, <<"c", "4">>), ClaimVolume(<<"v">>, <<"c", "1">>)>>)

\* an enabled pod whose first claim (c3) has no volume name and whose second
\* claim is c2
PodUnboundFirst ==
    Pod(<<"i">>, (AnnotationEnabled :> EnabledTrue),
        <<ClaimVolume(<<"v">>, <<"c", "3">>), ClaimVolume(<<"v">>, <<"c", "2">>)>>)

\* the pods of the nodes whole cycles are run on
CyclePods == {PodA, PodB, PodUnbound, PodGetErrFirst, PodUnboundFirst}

\* the nodes whole cycles are run on: at most MaxPods pods, every directory
\* or the directory of c1 only
CycleClusters ==
    { [listErr |-> FALSE, pods |-> ps, claims |-> ClaimsAll, dirs |-> d] :
        ps \in UNION { [1..k -> CyclePods] : k \in 0..MaxPods },
        d \in { DirsBoth, (PathP1 :> "present") } }

CycleInit ==
    /\ mode \in Modes
    /\ retention = <<"1", "4", "d">>
    /\ ProcessStart
    /\ call \in { [fn |-> "performBackups (cycle)", in |-> [cluster |-> c, ctxDone |-> FALSE],
                   out |-> <<>>, done |-> FALSE] : c \in CycleClusters }

RECURSIVE RunCommands(_)
\* performBackups from its first command on, every command returning success
RunCommands(cs) ==
    IF cs.pc = "backup"
    THEN RunCommands(AfterBackup([cs EXCEPT !.trace = SetRes(@, "ok")], "ok", FALSE))
    ELSE IF cs.pc = "forget"
    THEN AfterForget([cs EXCEPT !.trace = SetRes(@, "ok")], "ok")
    ELSE cs

\* one call of performBackups on a node, the restic commands succeeding
PerformCycle ==
    LET d == GetPVCsToBackup(call.in.cluster, call.in.ctxDone) IN
    \E list \in Orderings(d.pvcMap) :
        LET cs == RunCommands(AfterDiscovery(
                      [pc |-> "list", trace |-> <<Ev("list", <<>>, <<>>, <<>>, "ok")>>,
                       pvcs |-> <<>>, idx |-> 0, backupPaths |-> <<>>,
                       excludePatterns |-> <<>>, cycleErr |-> "none"],
                      d.err, list, FALSE))
        IN Returns("performBackups (cycle)",
                   [err |-> cs.cycleErr, pvcs |-> cs.pvcs, trace |-> cs.trace,
                    calls |-> DiscoveryCalls(call.in.cluster, call.in.ctxDone,
                                             call.in.cluster.pods)])

CycleSpec == CycleInit /\ [][PerformCycle]_vars

\* an enabled pod with claim c1 whose include annotation "," has no segment
PodNoSegment ==
    Pod(<<"j">>, (AnnotationEnabled :> EnabledTrue) @@ (AnnotationInclude :> <<",">>),
        <<ClaimVolume(<<"v">>, <<"c", "1">>)>>)

\* nodes with no eligible volume at all, and nodes with volumes whose include
\* annotation has segments, has none, or is absent
SegmentlessClusters ==
    { [listErr |-> FALSE, pods |-> ps, claims |-> ClaimsAll, dirs |-> d] :
        ps \in UNION { [1..k -> {PodA, PodB, PodC, PodNoSegment}] : k \in 0..MaxPods },
        d \in { DirsBoth, EmptyMap } }

SegmentlessInit ==
    /\ mode \in Modes
    /\ retention = <<"1", "4", "d">>
    /\ ProcessStart
    /\ call \in { [fn |-> "performBackups (cycle)", in |-> [cluster |-> c, ctxDone |-> FALSE],
                   out |-> <<>>, done |-> FALSE] : c \in SegmentlessClusters }

\* whole cycles on these nodes
SegmentlessSpec == SegmentlessInit /\ [][PerformCycle]_vars

RECURSIVE TrimDrop(_)
RECURSIVE TrimDrop_DropBeforeTrim(_)
\* a bug processPatterns could have: the empty check comes before the trim
TrimDrop_DropBeforeTrim(patterns) ==
    IF patterns = <<>> THEN <<>>
    ELSE IF Head(patterns) = <<>> THEN TrimDrop_DropBeforeTrim(Tail(patterns))
    ELSE <<TrimSpace(Head(patterns))>> \o TrimDrop_DropBeforeTrim(Tail(patterns))

\* the loop of processPatterns without the join: each piece is trimmed and
\* the empty ones are skipped
TrimDrop(patterns) ==
    IF patterns = <<>> THEN <<>>
    ELSE LET pattern == TrimSpace(Head(patterns)) IN
         IF pattern = <<>> THEN TrimDrop(Tail(patterns))
         ELSE <<pattern>> \o TrimDrop(Tail(patterns))

\* the segments processPatterns joins with the base path
SplitPatterns(patternStr) ==
    IF patternStr = <<>> THEN <<>>
    ELSE TrimDrop(Split(patternStr, ","))

SplitInit == Applying("processPatterns", Texts(MaxLen) \cup {ExampleInclude, ExampleExclude})

\* an annotation is split, the segments are joined with "," and split again
Resplit ==
    Returns("processPatterns",
            [segments |-> SplitPatterns(call.in),
             again    |-> SplitPatterns(JoinWith(SplitPatterns(call.in), <<",">>)),
             joined   |-> processPatterns(PathP1, call.in)])

SplitSpec == SplitInit /\ [][Resplit]_vars

\* Client.Forget under any retention policy
ForgetInit ==
    /\ mode = "perVolume"
    /\ retention \in Texts(MaxLen) \cup Retentions
    /\ ProcessStart
    /\ call = [fn |-> "Forget", in |-> retention, out |-> <<>>, done |-> FALSE]

\* performBackups calls Client.Forget after the backups
ApplyForget ==
    LET cs == CallForget([pc |-> "backup", trace |-> <<>>, pvcs |-> <<>>, idx |-> 0,
                          backupPaths |-> <<>>, excludePatterns |-> <<>>,
                          cycleErr |-> "none"], FALSE)
    IN Returns("Forget", cs.trace[Len(cs.trace)])

ForgetNext == ApplyForget

ForgetSpec == ForgetInit /\ [][ForgetNext]_vars

(***************************************************************************)
(* pkg/restic: the command line and the environment of the invocations,    *)
(* and the passthrough of the restic subcommand.  A client c holds the      *)
(* fields of restic.Client; every string is a sequence of characters.      *)
(***************************************************************************)
\* a bug getRepository could have: the node suffix is left out
getRepository_NoNode(c) ==
    IF c.s3Path = <<>>
    THEN <<"s", "3", ":">> \o c.s3Endpoint \o <<"/">> \o c.s3Bucket
    ELSE <<"s", "3", ":">> \o c.s3Endpoint \o <<"/">> \o c.s3Bucket \o <<"/">> \o c.s3Path

\* Client.getRepository
getRepository(c) ==
    IF c.s3Path = <<>>
    THEN <<"s", "3", ":">> \o c.s3Endpoint \o <<"/">> \o c.s3Bucket \o <<"/", "n", "o", "d", "e", "-">> \o c.nodeName
    ELSE <<"s", "3", ":">> \o c.s3Endpoint \o <<"/">> \o c.s3Bucket \o <<"/">> \o c.s3Path
             \o <<"/", "n", "o", "d", "e", "-">> \o c.nodeName

\* an environment entry NAME=value
EnvEntry(name, value) == [name |-> name, value |-> value]

\* Client.getEnv
getEnv(c) ==
    << EnvEntry("RESTIC_PASSWORD", c.password),
       EnvEntry("RESTIC_CACHE_DIR", c.cachePath),
       EnvEntry("AWS_ACCESS_KEY_ID", c.s3AccessKey),
       EnvEntry("AWS_SECRET_ACCESS_KEY", c.s3SecretKey),
       EnvEntry("AWS_DEFAULT_REGION", c.s3Region),
       EnvEntry("TMPDIR", c.cachePath) >>

RepoFlag == <<"-", "-", "r", "e", "p", "o">>

\* Client.InitRepository: the arguments of restic
InitArgs(c) == << <<"i", "n", "i", "t">>, RepoFlag, getRepository(c) >>

\* Client.Check: the arguments of restic
CheckArgs(c) == << <<"c", "h", "e", "c", "k">>, RepoFlag, getRepository(c) >>

RECURSIVE ExcludeFlags(_)
\* Client.Backup: --exclude and the pattern, for each pattern that is not empty
ExcludeFlags(patterns) ==
    IF patterns = <<>> THEN <<>>
    ELSE IF Head(patterns) # <<>>
    THEN << <<"-", "-", "e", "x", "c", "l", "u", "d", "e">>, Head(patterns) >> \o ExcludeFlags(Tail(patterns))
    ELSE ExcludeFlags(Tail(patterns))

\* a bug Client.Backup could have: the password is handed over as an argument
BackupArgs_WithPassword(c, sourcePaths, patterns) ==
    << <<"b", "a", "c", "k", "u", "p">>, RepoFlag, getRepository(c), <<"-", "-", "p", "a", "s", "s", "w", "o", "r", "d">>, c.password,
       <<"-", "-", "h", "o", "s", "t">>, c.nodeName >>
    \o ExcludeFlags(patterns) \o sourcePaths

\* Client.Backup: the arguments of restic
BackupArgs(c, sourcePaths, patterns) ==
    << <<"b", "a", "c", "k", "u", "p">>, RepoFlag, getRepository(c), <<"-", "-", "h", "o", "s", "t">>, c.nodeName >>
    \o ExcludeFlags(patterns) \o sourcePaths

\* Client.Forget: the arguments of restic, when it runs the command
ForgetArgs(c, ret) ==
    << <<"f", "o", "r", "g", "e", "t">>, RepoFlag, getRepository(c), <<"-", "-", "p", "r", "u", "n", "e">> >> \o KeepFlags(ret)

\* runResticCommand: the environment the passthrough adds to its own
PassthroughEnv(c) ==
    << EnvEntry("RESTIC_REPOSITORY",
                <<"s", "3", ":">> \o c.s3Endpoint \o <<"/">> \o c.s3Bucket \o <<"/">> \o c.s3Path),
       EnvEntry("RESTIC_PASSWORD", c.password),
       EnvEntry("RESTIC_CACHE_PATH", c.cachePath),
       EnvEntry("AWS_ACCESS_KEY_ID", c.s3AccessKey),
       EnvEntry("AWS_SECRET_ACCESS_KEY", c.s3SecretKey),
       EnvEntry("AWS_DEFAULT_REGION", c.s3Region) >>

\* the configurations of the process: endpoint, bucket, path prefix and node
\* name vary, the password too
ResticClients ==
    { [s3Endpoint |-> e, s3Bucket |-> b, s3Path |-> p, s3AccessKey |-> <<"A", "K">>,
       s3SecretKey |-> <<"S", "K">>, s3Region |-> <<"r">>, password |-> pw,
       cachePath |-> <<"/", "c">>, nodeName |-> n] :
        e \in { <<"e">>, <<"e", ":", "9">> }, b \in { <<"b">>, <<"b", "2">> },
        p \in { <<>>, <<"p">>, <<"p", "/", "q">> },
        n \in { <<"n">>, <<"n", "1">>, <<"n", "2">> },
        pw \in { <<"p", "w">>, <<"p", "w", "2">> } }

\* the calls of the client: the operation, and the arguments of Backup and
\* Forget
ClientCalls ==
    { [client |-> c, op |-> o, sourcePaths |-> <<PathP1, PathP2>>,
       patterns |-> <<PathP1 \o <<"/", "t">>, <<>>>>, retention |-> r] :
        c \in ResticClients, o \in {"init", "check", "backup", "forget", "passthrough"},
        r \in { <<"1", "4", "d">> } }

ClientInit == Applying("restic", ClientCalls)

\* an invocation of restic: its arguments and the environment added to that
\* of the process
InvokeInit ==
    /\ call.in.op = "init"
    /\ Returns("restic", [args |-> InitArgs(call.in.client), env |-> getEnv(call.in.client)])

InvokeCheck ==
    /\ call.in.op = "check"
    /\ Returns("restic", [args |-> CheckArgs(call.in.client), env |-> getEnv(call.in.client)])

InvokeBackup ==
    /\ call.in.op = "backup"
    /\ Returns("restic", [args |-> BackupArgs(call.in.client, call.in.sourcePaths,
                                               call.in.patterns),
                          env |-> getEnv(call.in.client)])

InvokeForget ==
    /\ call.in.op = "forget"
    /\ Returns("restic", [args |-> ForgetArgs(call.in.client, call.in.retention),
                          env |-> getEnv(call.in.client)])

\* the restic subcommand hands the operator's arguments over as they are
Passthrough ==
    /\ call.in.op = "passthrough"
    /\ Returns("restic", [args |-> << <<"s", "n", "a", "p", "s", "h", "o", "t", "s">> >>, env |-> PassthroughEnv(call.in.client)])

ClientNext ==
    \/ InvokeInit
    \/ InvokeCheck
    \/ InvokeBackup
    \/ InvokeForget
    \/ Passthrough

ClientSpec == ClientInit /\ [][ClientNext]_vars

(***************************************************************************)
(* The pattern revision: include-pattern and exclude-pattern annotations,  *)
(* one backup invocation of the storage path with include and exclude      *)
(* rules.                                                                  *)
(***************************************************************************)
AnnotationIncludePattern == "backup.local-pvc.io/include-pattern"
AnnotationExcludePattern == "backup.local-pvc.io/exclude-pattern"

\* config.DefaultPVCBackupConfig of the pattern revision
PatternDefaultPVCBackupConfig ==
    [Enabled |-> FALSE, IncludePattern |-> <<".", "*">>, ExcludePattern |-> <<>>]

\* getBackupConfig of the pattern revision
PatternGetBackupConfig(annotations) ==
    LET cfg0 == PatternDefaultPVCBackupConfig
        cfg1 == IF AnnotationEnabled \in DOMAIN annotations
                THEN [cfg0 EXCEPT !.Enabled =
                         (ToLower(annotations[AnnotationEnabled]) = <<"t", "r", "u", "e">>)]
                ELSE cfg0
        cfg2 == IF AnnotationIncludePattern \in DOMAIN annotations
                THEN [cfg1 EXCEPT !.IncludePattern = annotations[AnnotationIncludePattern]]
                ELSE cfg1
    IN IF AnnotationExcludePattern \in DOMAIN annotations
       THEN [cfg2 EXCEPT !.ExcludePattern = annotations[AnnotationExcludePattern]]
       ELSE cfg2

\* fmt.Sprintf("%s/%s", path, pattern)
Sprintf2(path, pattern) == path \o <<"/">> \o pattern

RECURSIVE PatternRules(_, _)
\* performBackups of the pattern revision: the include and exclude rules the
\* loop over pvcs collects
PatternRules(acc, list) ==
    IF list = <<>> THEN acc
    ELSE LET pvc == Head(list)
             inc == IF pvc.Config.IncludePattern # <<>>
                    THEN Sprintf2(pvc.Path, pvc.Config.IncludePattern)
                    ELSE pvc.Path
             exc == IF pvc.Config.ExcludePattern # <<>>
                    THEN <<Sprintf2(pvc.Path, pvc.Config.ExcludePattern)>>
                    ELSE <<>>
         IN PatternRules([includePatterns |-> Append(acc.includePatterns, inc),
                          excludePatterns |-> acc.excludePatterns \o exc],
                         Tail(list))

\* the annotations of a pod with an enabled volume
PatternAnnotationMaps ==
    { WithKey(WithKey(MapPut(EmptyMap, AnnotationEnabled, EnabledTrue),
                      AnnotationIncludePattern, i),
              AnnotationExcludePattern, x) :
        i \in Optional(Texts(MaxLen)), x \in Optional({<<>>, ExampleExclude}) }

PatternInit == Applying("performBackups (pattern)", PatternAnnotationMaps)

\* the rules of one volume at PathP1 whose pod carries the annotations
ResolvePattern ==
    Returns("performBackups (pattern)",
            PatternRules([includePatterns |-> <<>>, excludePatterns |-> <<>>],
                         << [Path |-> PathP1, Config |-> PatternGetBackupConfig(call.in)] >>))

PatternNext == ResolvePattern

PatternSpec == PatternInit /\ [][PatternNext]_vars

\* The scheduling the liveness of the loop rests on: the goroutine of
\* StartBackupLoop and the signal goroutine keep running, every external
\* command and the pod list query return, and a select whose ctx.Done() case
\* is ready again and again takes it in the end (Go picks among the ready
\* cases at random)
FairSpec ==
    /\ Spec
    /\ WF_vars(SignalHandler)
    /\ WF_vars(StartBackupLoop)
    /\ WF_vars(ListReturns)
    /\ WF_vars(BackupReturns)
    /\ WF_vars(ForgetReturns)
    /\ WF_vars(LoopContinue)
    /\ SF_vars(SelectDone)

(***************************************************************************)
(* Properties.                                                             *)
(***************************************************************************)
Last(tr) == tr[Len(tr)]

\* performBackups has returned and the next cycle has not started
CycleDone == cycleErr # "none"

\* the backup invocations of the current cycle
BackupEvents == { i \in DOMAIN trace : trace[i].op = "backup" }

\* the calls of Forget of the current cycle
ForgetEvents == { i \in DOMAIN trace : trace[i].op = "forget" }

\* C1: a cancellation that arrives while a cycle is in flight does not
\* interrupt the cycle: in a cycle that started before the cancellation no
\* backup or forget command is killed while it runs, and none is refused its
\* start, on account of the cancelled context.
C1_CancelDoesNotInterruptCycle ==
    ~ctxAtStart =>
        \A i \in DOMAIN trace :
            trace[i].op \in {"backup", "forget"} => trace[i].res \notin {"killed", "refused"}

\* C2: once the cancellation is requested StartBackupLoop starts no further
\* cycle: no tick-driven cycle is ever started with ctx already cancelled,
\* also when the tick and ctx.Done() are both ready at the select.
C2_NoCycleAfterCancel == ~(ctxAtStart /\ ~initial)

\* C3: a failed cycle never terminates the loop: when performBackups has
\* returned (an error or not) the loop goes to its select; StartBackupLoop
\* returns only when ctx is cancelled; and after a failed cycle, with no
\* cancellation requested, the step the loop takes on the next tick starts a
\* cycle.
C3_FailedCycleKeepsLoop ==
    [][ /\ (pc = "returned" /\ cycleErr = "err" /\ pc' # pc) => pc' = "select"
        /\ (pc # "stopped" /\ pc' = "stopped") => (cancelled /\ pc = "select")
        /\ (pc = "select" /\ cycleErr = "err" /\ ~cancelled /\ pc' # pc)
              => (cycle' = cycle + 1 /\ tickChan > 0) ]_vars

\* a cycle is running after a failed cycle, with no cancellation requested
C3_Witness ==
    /\ cycle >= 2
    /\ prevErr = "err"
    /\ pc = "backup"
    /\ ~cancelled

\* C4: when the pod list query fails, discovery returns an error and no
\* volume, and the cycle makes no backup and no cleanup invocation: the
\* query is the only invocation of the cycle, which returns an error.
C4_ListFailureNoInvocation ==
    (trace # <<>> /\ trace[1].op = "list" /\ trace[1].res \in Failures) =>
        /\ pvcs = <<>>
        /\ Len(trace) = 1
        /\ cycleErr = "err"

\* the query failed by itself, with ctx not cancelled
C4_Witness ==
    /\ trace # <<>>
    /\ trace[1].res = "fail"
    /\ pc = "returned"
    /\ ~cancelled

\* C5: EnsureRepository runs the check first, runs init if and only if the
\* check failed, and returns an error if and only if both failed.
C5_EnsureRepository ==
    /\ bootLog # <<>> => bootLog[1].op = "check"
    /\ Len(bootLog) <= 2
    /\ Len(bootLog) = 2 => (bootLog[2].op = "init" /\ bootLog[1].res = "fail")
    /\ (bootLog # <<>> /\ bootLog[1].res = "fail") => Len(bootLog) = 2
    /\ (bootLog # <<>> /\ bootLog[1].res = "ok") => (Len(bootLog) = 1 /\ ensureErr = "nil")
    /\ ensureErr = "err" <=>
          (Len(bootLog) = 2 /\ bootLog[1].res = "fail" /\ bootLog[2].res = "fail")
    /\ ensureErr = "nil" <=>
          (bootLog # <<>> /\ Last(bootLog).res = "ok")

\* the check failed and the init that followed succeeded
C5_Witness ==
    /\ Len(bootLog) = 2
    /\ bootLog[1].res = "fail"
    /\ bootLog[2].res = "ok"
    /\ ensureErr = "nil"

\* C6: the bootstrap happens once and before the loop: EnsureRepository is
\* called at most once; nothing of the loop (a cycle, an invocation, the
\* signal goroutine, the ticker) exists unless it was called once and
\* returned success; and when it failed the process is at log.Fatalf with
\* no cycle started.
C6_BootstrapBeforeLoop ==
    /\ ensureCalls <= 1
    /\ (cycle > 0 \/ trace # <<>> \/ tickerOn \/ sigPc # "notstarted"
           \/ pc \notin {"start", "check", "init", "fatal"})
          => (ensureCalls = 1 /\ ensureErr = "nil")
    /\ ensureErr = "err" => (pc = "fatal" /\ cycle = 0 /\ trace = <<>>)

\* a backup runs in a service whose repository had to be initialised
C6_Witness ==
    /\ pc = "backup"
    /\ Len(bootLog) = 2
    /\ ensureErr = "nil"

\* C7: in per-volume mode the first failing backup invocation ends the
\* cycle: it is the last invocation of the cycle (no backup of a later
\* volume, no cleanup) and performBackups returns an error.
C7_FirstFailureAborts ==
    mode = "perVolume" =>
        \A i \in BackupEvents :
            trace[i].res \in Failures => (i = Len(trace) /\ cycleErr = "err")

\* the backup of the first of two volumes failed by itself
C7_Witness ==
    /\ mode = "perVolume"
    /\ Len(pvcs) = 2
    /\ idx = 1
    /\ Last(trace).op = "backup"
    /\ Last(trace).res = "fail"
    /\ ~cancelled

\* C8: Forget is called at most once per cycle, as the last invocation of
\* the cycle, after every backup invocation of the cycle (one per volume in
\* per-volume mode, one in batched mode) has returned success.
C8_ForgetOnceAfterBackups ==
    /\ Cardinality(ForgetEvents) <= 1
    /\ \A i \in ForgetEvents :
          /\ i = Len(trace)
          /\ \A j \in 1..(i - 1) : trace[j].res = "ok"
          /\ Cardinality(BackupEvents) = (IF mode = "perVolume" THEN Len(pvcs) ELSE 1)

\* the forget command runs after the backups of two volumes
C8_Witness ==
    /\ mode = "perVolume"
    /\ Len(pvcs) = 2
    /\ pc = "forget"
    /\ Cardinality(BackupEvents) = 2

\* C9 as stated: every finished cycle whose discovery succeeded and in which
\* no backup failed has called Forget once, as its last step, for every
\* discovery result, also an empty one (the retention policy having a token).
C9_CleanupAfterEveryGoodCycle ==
    (/\ CycleDone
     /\ KeepFlags(retention) # <<>>
     /\ trace[1].res = "ok"
     /\ \A i \in BackupEvents : trace[i].res \notin Failures)
    => (Cardinality(ForgetEvents) = 1 /\ Last(trace).op = "forget")

\* C9 as amended: every finished cycle whose discovery returned at least one
\* volume and in which no backup failed has called Forget once, as its last
\* step; a cycle whose discovery returned no volume returns success after
\* the query, with no call of Backup or Forget.
C9_CleanupAfterNonEmptyGoodCycle ==
    (/\ CycleDone
     /\ KeepFlags(retention) # <<>>
     /\ trace[1].res = "ok"
     /\ \A i \in BackupEvents : trace[i].res \notin Failures)
    => IF pvcs # <<>>
       THEN Cardinality(ForgetEvents) = 1 /\ Last(trace).op = "forget"
       ELSE Len(trace) = 1 /\ cycleErr = "nil"

\* a per-volume cycle over two volumes has ended with the forget command
C9_Witness ==
    /\ CycleDone
    /\ KeepFlags(retention) # <<>>
    /\ Len(pvcs) = 2
    /\ \A i \in BackupEvents : trace[i].res = "ok"
    /\ Last(trace).op = "forget"
    /\ Last(trace).res = "ok"

\* C10: a failure of the cleanup does not fail the cycle: when Forget
\* returns an error performBackups returns nil, and the loop does not stop
\* for it (it stops only on a cancellation).
C10_ForgetFailureNotFatal ==
    (trace # <<>> /\ Last(trace).op = "forget" /\ Last(trace).res \in Failures) =>
        /\ cycleErr = "nil"
        /\ pc \in {"returned", "select", "stopped"}
        /\ pc = "stopped" => cancelled

\* the forget command failed by itself and the loop waits for the next tick
C10_Witness ==
    /\ trace # <<>>
    /\ Last(trace).op = "forget"
    /\ Last(trace).res = "fail"
    /\ pc = "select"
    /\ ~cancelled

\* the invocations of the current cycle that have not returned
Running == { i \in DOMAIN trace : trace[i].res = "running" }

\* C11: cycles never overlap and at most one external command runs at a
\* time: the only invocation that may be running is the last one started, so
\* the volumes are gone through one after the other, and a cycle starts only
\* from the loop's own two call sites, when no invocation of the cycle before
\* it is running and that cycle, if there was one, has returned
C11_OneCommandAtATime ==
    [][ /\ Running' \subseteq {Len(trace')}
        /\ (Running' # {}) = (pc' \in {"list", "backup", "forget"})
        /\ cycle' # cycle =>
              /\ Running = {}
              /\ pc \in {"created", "select"}
              /\ cycle > 0 => CycleDone
      ]_vars

\* the second volume of a tick-driven cycle is being backed up
C11_Witness ==
    /\ mode = "perVolume"
    /\ cycle >= 2
    /\ pc = "backup"
    /\ idx = 2
    /\ Cardinality(BackupEvents) = 2
    /\ Running = {Len(trace)}

\* C12: StartBackupLoop runs one whole cycle before it creates the ticker and
\* reaches its select: until the initial cycle has returned there is no ticker
\* and no tick, the first cycle is the initial one, and the wait for ticks is
\* entered after it whatever it returned
C12_InitialCycleFirst ==
    /\ cycle = 0 => ~tickerOn /\ ticks = 0 /\ tickChan = 0 /\ pc # "select"
    /\ cycle = 1 => initial
    /\ cycle = 1 /\ ~CycleDone => ~tickerOn /\ ticks = 0 /\ tickChan = 0
    /\ pc = "select" => cycle >= 1 /\ CycleDone /\ tickerOn
    /\ cycle >= 2 => ~initial

\* the initial cycle failed and the loop waits for its first tick
C12_Witness ==
    /\ pc = "select"
    /\ cycle = 1
    /\ cycleErr = "err"
    /\ tickerOn
    /\ ticks = 0

\* C13: once the context is cancelled, StartBackupLoop returns nil, whether
\* the cancellation came in the initial cycle, in a tick-driven cycle or in
\* the wait for a tick
C13_CancelStopsLoop == cancelled ~> (pc = "stopped")

\* the loop has stopped after a cancellation that killed the backup command of
\* a tick-driven cycle
C13_Witness ==
    /\ pc = "stopped"
    /\ cycle >= 2
    /\ ~ctxAtStart
    /\ Last(trace).op = "backup"
    /\ Last(trace).res = "killed"

\* "true", whatever the case of its letters
IsTrueIgnoringCase(v) ==
    /\ Len(v) = 4
    /\ v[1] \in {"t", "T"}
    /\ v[2] \in {"r", "R"}
    /\ v[3] \in {"u", "U"}
    /\ v[4] \in {"e", "E"}

\* C14: the policy getBackupConfig resolves is enabled exactly when the
\* enabled annotation is present and its value is "true" in some case of the
\* letters, whatever the include and exclude annotations hold
C14_EnabledIffTrueIgnoringCase ==
    (call.fn = "getBackupConfig" /\ call.done) =>
        (call.out.Enabled <=>
            /\ AnnotationEnabled \in DOMAIN call.in
            /\ IsTrueIgnoringCase(call.in[AnnotationEnabled]))

\* a policy enabled by a mixed-case value, with both list annotations present
C14_Witness ==
    /\ call.fn = "getBackupConfig"
    /\ call.done
    /\ call.out.Enabled
    /\ DOMAIN call.in = {AnnotationEnabled, AnnotationInclude, AnnotationExclude}
    /\ call.in[AnnotationEnabled] = <<"T", "r", "U", "e">>

\* the places of the commas of s, with the places before and after s
Cuts(s) == {0, Len(s) + 1} \cup { i \in 1..Len(s) : s[i] = "," }

NthCut(s, k) == CHOOSE c \in Cuts(s) : Cardinality({ d \in Cuts(s) : d < c }) = k - 1

\* what stands between the commas of s, in order
Pieces(s) ==
    [k \in 1..(Cardinality(Cuts(s)) - 1) |-> SubSeq(s, NthCut(s, k) + 1, NthCut(s, k + 1) - 1)]

\* p without the whitespace around it
Trimmed(p) ==
    LET ns == { i \in 1..Len(p) : ~IsSpace(p[i]) } IN
    IF ns = {} THEN <<>>
    ELSE SubSeq(p, CHOOSE i \in ns : \A j \in ns : i <= j,
                   CHOOSE i \in ns : \A j \in ns : i >= j)

NotEmpty(p) == p # <<>>

\* the segments of a comma-separated string: trimmed, the empty ones dropped
Segments(s) == SelectSeq([k \in DOMAIN Pieces(s) |-> Trimmed(Pieces(s)[k])], NotEmpty)

\* a segment that names an entry below the volume root by its name
IsPlain(seg) == \A i \in 1..Len(seg) : seg[i] \notin {"/", "."}

\* the segments joined with the host path, in order
JoinedWith(hostPath, segs) ==
    [k \in DOMAIN segs |-> IF IsPlain(segs[k])
                           THEN hostPath \o <<"/">> \o segs[k]
                           ELSE FilepathJoin(hostPath, segs[k])]

\* C15: a volume whose include annotation yields no segment (absent, empty,
\* or commas and whitespace only) is backed up with the one path hostPath
C15_NoSegmentBacksUpHostPath ==
    (call.fn = "performBackups" /\ call.done /\ Segments(call.in.Config.Include) = <<>>) =>
        call.out.paths = <<call.in.Path>>

\* C16: in the pattern revision a volume without the include-pattern
\* annotation is backed up as a whole: its one include entry is its host path
C16_NoIncludePatternIsHostPath ==
    (call.fn = "performBackups (pattern)" /\ call.done
        /\ AnnotationIncludePattern \notin DOMAIN call.in) =>
            call.out.includePatterns = <<PathP1>>

\* C17: a volume whose include annotation has segments is backed up with one
\* path per segment, hostPath joined with the segment, in the order of the
\* annotation
C17_OnePathPerSegment ==
    (call.fn = "performBackups" /\ call.done /\ Segments(call.in.Config.Include) # <<>>) =>
        call.out.paths = JoinedWith(call.in.Path, Segments(call.in.Config.Include))

\* include "d,c" gives the paths hostPath/d and hostPath/c
C17_Witness ==
    /\ call.fn = "performBackups"
    /\ call.done
    /\ call.in.Config.Include = ExampleInclude
    /\ call.out.paths = <<PathP1 \o <<"/", "d">>, PathP1 \o <<"/", "c">>>>

KeepPairs(tokens) ==
    [k \in 1..(2 * Len(tokens)) |-> IF k % 2 = 1 THEN KeepWithin ELSE tokens[k \div 2]]

\* C19: Forget passes one --keep-within pair per trimmed non-empty token of
\* the retention policy, in order; when there is no token it runs no command
\* and returns without an error
C19_KeepWithinPerToken ==
    (call.fn = "Forget" /\ call.done) =>
        /\ call.out.op = "forget"
        /\ call.out.keep = KeepPairs(Segments(call.in))
        /\ call.out.res = IF Segments(call.in) = <<>> THEN "noop" ELSE "running"

\* the policy "14d" gives the one pair --keep-within 14d
C19_Witness ==
    /\ call.fn = "Forget"
    /\ call.done
    /\ call.in = <<"1", "4", "d">>
    /\ call.out.keep = <<KeepWithin, <<"1", "4", "d">>>>
    /\ call.out.res = "running"

\* C20: GetPVCsToBackup returns no two entries with the same namespace and
\* claim name, whatever the pods and their volumes
C20_NoDuplicateClaims ==
    (call.fn = "GetPVCsToBackup" /\ call.done) =>
        \A i, j \in DOMAIN call.out.pvcs :
            (/\ call.out.pvcs[i].Namespace = call.out.pvcs[j].Namespace
             /\ call.out.pvcs[i].Name = call.out.pvcs[j].Name) => i = j

\* claim c1 is mounted under two volume names by one pod and by a second pod
\* as well, every directory exists, and c1 is returned once
C20_Witness ==
    /\ call.fn = "GetPVCsToBackup"
    /\ call.done
    /\ call.in.cluster.pods = <<PodTwoNames, PodA>>
    /\ PathP1w \in DOMAIN call.in.cluster.dirs
    /\ PathP3 \in DOMAIN call.in.cluster.dirs
    /\ ~call.out.err
    /\ Len(call.out.pvcs) = 1
    /\ call.out.pvcs[1].Name = <<"c", "1">>

\* the claims the pods of a discovery mount and the API server returns with a
\* volume name: namespace, claim name, the directory <pv>_<ns>_<volume> of the
\* mount below root, and whether the pod and the claim are annotated enabled
Mounts(in, root) ==
    LET cl == in.cluster IN
    { [ns |-> cl.pods[i].Namespace,
       name |-> cl.pods[i].Volumes[j].ClaimName,
       dir |-> root \o <<"/">> \o cl.claims[cl.pods[i].Namespace \o <<"/">>
                                              \o cl.pods[i].Volumes[j].ClaimName].VolumeName
                    \o <<"_">> \o cl.pods[i].Namespace \o <<"_">> \o cl.pods[i].Volumes[j].Name,
       podEnabled |-> /\ AnnotationEnabled \in DOMAIN cl.pods[i].Annotations
                      /\ IsTrueIgnoringCase(cl.pods[i].Annotations[AnnotationEnabled]),
       claimEnabled |->
           LET an == cl.claims[cl.pods[i].Namespace \o <<"/">>
                                 \o cl.pods[i].Volumes[j].ClaimName].Annotations
           IN /\ AnnotationEnabled \in DOMAIN an
              /\ IsTrueIgnoringCase(an[AnnotationEnabled])] :
      <<i, j>> \in { <<i, j>> \in (DOMAIN cl.pods) \X (1..2) :
                       /\ j \in DOMAIN cl.pods[i].Volumes
                       /\ cl.pods[i].Volumes[j].HasPVC
                       /\ ~in.ctxDone
                       /\ LET k == cl.pods[i].Namespace \o <<"/">>
                                     \o cl.pods[i].Volumes[j].ClaimName
                          IN /\ k \in DOMAIN cl.claims
                             /\ ~cl.claims[k].getErr
                             /\ cl.claims[k].VolumeName # <<>> } }

\* what the existence probe of a directory finds
Probe(in, dir) == IF dir \in DOMAIN in.cluster.dirs THEN in.cluster.dirs[dir] ELSE "absent"

\* the (namespace, claim) pairs of a discovery result
Returned(out) == { <<out.pvcs[i].Namespace, out.pvcs[i].Name>> : i \in DOMAIN out.pvcs }

\* C21: a claim whose directory does not exist is left out and discovery
\* still succeeds and returns every claim of an enabled pod whose directory
\* exists
C21_MissingDirectoryLeftOut ==
    (call.fn = "GetPVCsToBackup" /\ call.done /\ ~call.in.cluster.listErr) =>
        LET ms == { m \in Mounts(call.in, DataRoot) : m.podEnabled } IN
        /\ ~call.out.err
        /\ Returned(call.out) \subseteq
              { <<m.ns, m.name>> : m \in { n \in ms : Probe(call.in, n.dir) # "absent" } }
        /\ { <<m.ns, m.name>> : m \in { n \in ms : Probe(call.in, n.dir) = "present" } }
              \subseteq Returned(call.out)

\* the directory of c2 is missing: c1 of the same pod and c1 of the pod of
\* the other namespace are returned, c2 is not
C21_Witness ==
    /\ call.fn = "GetPVCsToBackup"
    /\ call.done
    /\ call.in.cluster.pods = <<PodTwoClaims, PodOtherNs>>
    /\ call.in.cluster.dirs = (PathP1 :> "present") @@ (PathP3 :> "present")
    /\ ~call.out.err
    /\ Returned(call.out) = { <<NsDefault, <<"c", "1">>>>, <<NsOther, <<"c", "1">>>> }

\* C22: the host path of every volume discovery returns was found present by
\* the probe; a probe that ends otherwise, an error included, leaves the claim
\* out
C22_ReturnedPathsVerified ==
    (call.fn = "GetPVCsToBackup" /\ call.done) =>
        \A i \in DOMAIN call.out.pvcs : Probe(call.in, call.out.pvcs[i].Path) = "present"

\* C23: a claim annotated enabled itself, mounted on the node with an
\* existing directory, is returned whatever the annotations of the pod, and a
\* claim without the annotation is not
C23_ClaimAnnotationDecides ==
    (call.fn = "GetPVCsToBackup" /\ call.done /\ ~call.in.cluster.listErr) =>
        \A m \in Mounts(call.in, DataRoot) :
            Probe(call.in, m.dir) = "present" =>
                (m.claimEnabled <=> <<m.ns, m.name>> \in Returned(call.out))

\* p is s or lies below s
IsUnder(p, s) == Len(p) >= Len(s) /\ SubSeq(p, 1, Len(s)) = s /\ (Len(p) > Len(s) => p[Len(s) + 1] = "/")

\* C24: the directory discovery returns for a claim lies under the configured
\* storage path, whatever its value
C24_UnderStoragePath ==
    (call.fn = "GetPVCsToBackup" /\ call.done) =>
        \A i \in DOMAIN call.out.pvcs : IsUnder(call.out.pvcs[i].Path, call.in.storagePath)

\* the invocations the service makes itself
ServiceOps == {"init", "check", "backup", "forget"}

\* s3:<endpoint>/<bucket>[/<prefix>]/node-<node>
RepositoryURL(c) ==
    <<"s", "3", ":">> \o c.s3Endpoint \o <<"/">> \o c.s3Bucket
    \o (IF c.s3Path = <<>> THEN <<>> ELSE <<"/">> \o c.s3Path)
    \o <<"/", "n", "o", "d", "e", "-">> \o c.nodeName

\* the places of the --repo flag in an argument list
RepoPlaces(args) == { i \in DOMAIN args : args[i] = RepoFlag }

\* C25: every init, check, backup and forget invocation names, once, the
\* repository s3:<endpoint>/<bucket>[/<prefix>]/node-<node> of the process,
\* and no other node name gives that URL under the same endpoint, bucket and
\* prefix
C25_RepositoryPerNode ==
    (call.fn = "restic" /\ call.done /\ call.in.op \in ServiceOps) =>
        /\ Cardinality(RepoPlaces(call.out.args)) = 1
        /\ \A i \in RepoPlaces(call.out.args) :
              /\ i < Len(call.out.args)
              /\ call.out.args[i + 1] = RepositoryURL(call.in.client)
              /\ \A c \in ResticClients :
                    (/\ c.s3Endpoint = call.in.client.s3Endpoint
                     /\ c.s3Bucket = call.in.client.s3Bucket
                     /\ c.s3Path = call.in.client.s3Path
                     /\ c.nodeName # call.in.client.nodeName)
                    => getRepository(c) # call.out.args[i + 1]

\* a forget invocation of node n1 under the prefix p/q
C25_Witness ==
    /\ call.fn = "restic"
    /\ call.done
    /\ call.in.op = "forget"
    /\ call.in.client.s3Path = <<"p", "/", "q">>
    /\ call.in.client.nodeName = <<"n", "1">>
    /\ call.out.args[3] = RepositoryURL(call.in.client)

\* C26: the passthrough gives restic the environment of the service's own
\* invocations: the repository of the node, and the same names and values for
\* password, cache directory, credentials and region
C26_PassthroughSameEnvironment ==
    (call.fn = "restic" /\ call.done /\ call.in.op = "passthrough") =>
        LET env == call.out.env
            svc == getEnv(call.in.client)
        IN /\ \E i \in DOMAIN env : /\ env[i].name = "RESTIC_REPOSITORY"
                                      /\ env[i].value = getRepository(call.in.client)
           /\ \A k \in DOMAIN svc :
                 svc[k].name # "TMPDIR" => \E i \in DOMAIN env : env[i] = svc[k]

\* t occurs in s
Contains(s, t) ==
    \E i \in 1..(Len(s) - Len(t) + 1) : SubSeq(s, i, i + Len(t) - 1) = t

\* the password, the access key and the secret key of a client
Secrets(c) == { c.password, c.s3AccessKey, c.s3SecretKey }

\* C27: no argument of an init, check, backup or forget invocation holds the
\* password, the access key or the secret key; the environment of the child
\* process holds each of them
C27_SecretsInEnvironmentOnly ==
    (call.fn = "restic" /\ call.done /\ call.in.op \in ServiceOps) =>
        /\ \A i \in DOMAIN call.out.args :
              \A x \in Secrets(call.in.client) : ~Contains(call.out.args[i], x)
        /\ \A x \in Secrets(call.in.client) :
              \E k \in DOMAIN call.out.env : call.out.env[k].value = x

\* a backup invocation with its paths and an exclude
C27_Witness ==
    /\ call.fn = "restic"
    /\ call.done
    /\ call.in.op = "backup"
    /\ Len(call.out.args) = 9
    /\ call.out.env[1] = EnvEntry("RESTIC_PASSWORD", <<"p", "w">>)

\* C28: splitting on ",", trimming and dropping the empty segments is
\* idempotent: the segments joined with "," split into the same segments;
\* these segments are the ones processPatterns joins with the base path
C28_SplitIdempotent ==
    (call.fn = "processPatterns" /\ call.done) =>
        /\ call.out.again = call.out.segments
        /\ call.out.segments = Segments(call.in)
        /\ call.out.joined = [k \in DOMAIN call.out.segments |->
                                 FilepathJoin(PathP1, call.out.segments[k])]

\* " a,." splits into a and ., and so does "a,."
C28_Witness ==
    /\ call.fn = "processPatterns"
    /\ call.done
    /\ call.in = <<" ", "a", ",", ".">>
    /\ call.out.segments = << <<"a">>, <<".">> >>
    /\ call.out.again = call.out.segments

\* the paths the specification resolves for a volume: the host path joined
\* with each include segment, or the host path itself when there is none
ResolvedPaths(pvc) ==
    IF Segments(pvc.Config.Include) = <<>> THEN <<pvc.Path>>
    ELSE JoinedWith(pvc.Path, Segments(pvc.Config.Include))

\* the excludes the specification resolves for a volume
ResolvedExcludes(pvc) == JoinedWith(pvc.Path, Segments(pvc.Config.Exclude))

\* every element of the list is an element of the other list
Only(list, from) == \A i \in DOMAIN list : \E j \in DOMAIN from : list[i] = from[j]

\* the k-th backup invocation of the current cycle
NthBackup(k) ==
    trace[CHOOSE i \in BackupEvents : Cardinality({ j \in BackupEvents : j <= i }) = k]

\* C30: in per-volume mode the k-th backup invocation of a cycle carries
\* only paths and excludes resolved for the k-th eligible volume, nothing of
\* a volume processed before it, and a cycle in which no backup failed has
\* issued exactly one backup invocation per eligible volume
C30_PerVolumeOwnPathsOnly ==
    mode = "perVolume" =>
        /\ Cardinality(BackupEvents) <= Len(pvcs)
        /\ \A k \in 1..Cardinality(BackupEvents) :
              /\ Only(NthBackup(k).paths, ResolvedPaths(pvcs[k]))
              /\ Only(NthBackup(k).excludes, ResolvedExcludes(pvcs[k]))
        /\ (CycleDone /\ cycleErr = "nil") => Cardinality(BackupEvents) = Len(pvcs)

\* a cycle over two volumes has finished without error: two backup
\* invocations, the second with the paths of the second volume alone
C30_Witness ==
    /\ mode = "perVolume"
    /\ CycleDone
    /\ cycleErr = "nil"
    /\ Len(pvcs) = 2
    /\ Cardinality(BackupEvents) = 2
    /\ NthBackup(1).paths # <<>>
    /\ NthBackup(2).paths = ResolvedPaths(pvcs[2])
    /\ NthBackup(1).excludes # NthBackup(2).excludes

\* the lists put one after the other
RECURSIVE Concat(_)
Concat(lists) == IF lists = <<>> THEN <<>> ELSE Head(lists) \o Concat(Tail(lists))

\* C29: a batched cycle with at least one eligible volume issues exactly one
\* backup invocation; its paths are the resolved paths of every eligible
\* volume, one volume after the other, its excludes the resolved excludes
\* likewise, and every eligible volume has a path in the invocation
C29_BatchCoversEveryVolume ==
    (call.fn = "performBackups (batched)" /\ call.done) =>
        /\ Len(call.out) = 1
        /\ call.out[1].op = "backup"
        /\ call.out[1].paths =
              Concat([k \in DOMAIN call.in |-> ResolvedPaths(call.in[k])])
        /\ call.out[1].excludes =
              Concat([k \in DOMAIN call.in |-> ResolvedExcludes(call.in[k])])
        /\ \A k \in DOMAIN call.in :
              \E i \in DOMAIN call.out[1].paths : IsUnder(call.out[1].paths[i], call.in[k].Path)

\* the pod carries the enabled annotation with a value that reads true
PodEnabled(pod) ==
    /\ AnnotationEnabled \in DOMAIN pod.Annotations
    /\ IsTrueIgnoringCase(pod.Annotations[AnnotationEnabled])

\* the (namespace, claim) pairs the enabled pods of a discovery mount
EnabledClaims(in) ==
    { <<in.cluster.pods[i].Namespace, in.cluster.pods[i].Volumes[j].ClaimName>> :
        <<i, j>> \in { <<i, j>> \in (DOMAIN in.cluster.pods) \X (1..2) :
                         /\ j \in DOMAIN in.cluster.pods[i].Volumes
                         /\ in.cluster.pods[i].Volumes[j].HasPVC
                         /\ PodEnabled(in.cluster.pods[i]) } }

\* C31: a pod that is not enabled contributes nothing: every claim looked
\* up, every directory probed and every entry returned belongs to a volume
\* of an enabled pod, and every entry carries an enabled policy
C31_DisabledPodContributesNothing ==
    (call.fn = "GetPVCsToBackup" /\ call.done) =>
        /\ \A i \in DOMAIN call.out.calls :
              /\ <<call.out.calls[i].ns, call.out.calls[i].name>> \in EnabledClaims(call.in)
              /\ call.out.calls[i].op = "stat" =>
                    \E m \in Mounts(call.in, DataRoot) :
                        m.podEnabled /\ m.dir = call.out.calls[i].path
        /\ Returned(call.out) \subseteq EnabledClaims(call.in)
        /\ \A i \in DOMAIN call.out.pvcs : call.out.pvcs[i].Config.Enabled

\* a pod that is not enabled mounts c2, whose directory exists, next to an
\* enabled pod with c1: only c1 is looked up, probed and returned
C31_Witness ==
    /\ call.fn = "GetPVCsToBackup"
    /\ call.done
    /\ call.in.cluster.pods = <<PodC, PodA>>
    /\ PathP2 \in DOMAIN call.in.cluster.dirs
    /\ Returned(call.out) = { <<NsDefault, <<"c", "1">>>> }
    /\ Len(call.out.calls) = 2
    /\ call.out.calls[2].path = PathP1

\* the (pod, volume) pairs of a discovery, by their positions, that reach a
\* claim the API server returns with a volume name, the pod being enabled
MountPairs(in) ==
    LET cl == in.cluster IN
    { p \in (DOMAIN cl.pods) \X (1..2) :
        /\ p[2] \in DOMAIN cl.pods[p[1]].Volumes
        /\ cl.pods[p[1]].Volumes[p[2]].HasPVC
        /\ PodEnabled(cl.pods[p[1]])
        /\ ~in.ctxDone
        /\ LET k == cl.pods[p[1]].Namespace \o <<"/">> \o cl.pods[p[1]].Volumes[p[2]].ClaimName
           IN /\ k \in DOMAIN cl.claims
              /\ ~cl.claims[k].getErr
              /\ cl.claims[k].VolumeName # <<>> }

\* the (namespace, claim) a pair reaches
ClaimOf(in, p) ==
    <<in.cluster.pods[p[1]].Namespace, in.cluster.pods[p[1]].Volumes[p[2]].ClaimName>>

\* the directory <pv>_<ns>_<volume> of a pair below /data
DirOf(in, p) ==
    LET pod == in.cluster.pods[p[1]]
        vol == pod.Volumes[p[2]]
    IN DataRoot \o <<"/">>
         \o in.cluster.claims[pod.Namespace \o <<"/">> \o vol.ClaimName].VolumeName
         \o <<"_">> \o pod.Namespace \o <<"_">> \o vol.Name

\* pod-then-volume iteration order
Before(p, q) == p[1] < q[1] \/ (p[1] = q[1] /\ p[2] < q[2])

\* the entry of a discovery result for a (namespace, claim)
EntryOf(out, c) ==
    out.pvcs[CHOOSE i \in DOMAIN out.pvcs : <<out.pvcs[i].Namespace, out.pvcs[i].Name>> = c]

\* C32: the entry of a claim reached through several (pod, volume) pairs
\* carries the host path and the policy of the last pair, in pod-then-volume
\* order, whose directory exists; a claim none of whose pairs has an existing
\* directory has no entry
C32_LastExistingPairWins ==
    (call.fn = "GetPVCsToBackup" /\ call.done /\ ~call.in.cluster.listErr) =>
        \A c \in { ClaimOf(call.in, p) : p \in MountPairs(call.in) } :
            LET ex == { p \in MountPairs(call.in) :
                          /\ ClaimOf(call.in, p) = c
                          /\ Probe(call.in, DirOf(call.in, p)) = "present" }
            IN IF ex = {} THEN c \notin Returned(call.out)
               ELSE LET last == CHOOSE p \in ex : \A q \in ex : q = p \/ Before(q, p) IN
                    /\ c \in Returned(call.out)
                    /\ EntryOf(call.out, c).Path = DirOf(call.in, last)
                    /\ EntryOf(call.out, c).Config =
                          getBackupConfig(call.in.cluster.pods[last[1]].Annotations)

\* C33: a claim that cannot be fetched or is not bound excludes only itself:
\* every claim volume of every enabled pod is still looked up, discovery and
\* the cycle return without error, every other claim whose directory exists
\* is in the discovery result, and the resolved paths of every entry of the
\* result are in a backup invocation of the cycle
C33_ItemProblemExcludesItemOnly ==
    (call.fn = "performBackups (cycle)" /\ call.done) =>
        /\ call.out.err = "nil"
        /\ \A c \in EnabledClaims(call.in) :
              \E i \in DOMAIN call.out.calls :
                  call.out.calls[i].op = "get" /\ <<call.out.calls[i].ns, call.out.calls[i].name>> = c
        /\ Returned(call.out) =
              { ClaimOf(call.in, p) :
                  p \in { q \in MountPairs(call.in) :
                            Probe(call.in, DirOf(call.in, q)) = "present" } }
        /\ \A k \in DOMAIN call.out.pvcs :
              \E i \in DOMAIN call.out.trace :
                  /\ call.out.trace[i].op = "backup"
                  /\ call.out.trace[i].res = "ok"
                  /\ Only(ResolvedPaths(call.out.pvcs[k]), call.out.trace[i].paths)

\* the first claim of a pod cannot be fetched, the first claim of the next
\* pod is not bound: the second claims of the two pods are backed up
C33_Witness ==
    /\ call.fn = "performBackups (cycle)"
    /\ call.done
    /\ call.in.cluster.pods = <<PodGetErrFirst, PodUnboundFirst>>
    /\ call.in.cluster.dirs = DirsBoth
    /\ call.out.err = "nil"
    /\ Returned(call.out) = { <<NsDefault, <<"c", "1">>>>, <<NsDefault, <<"c", "2">>>> }
    /\ \E i \in DOMAIN call.out.trace :
          call.out.trace[i].op = "backup" /\ call.out.trace[i].paths = <<PathP2>>

\* C34: every source path and every exclude of the backup invocation of a
\* volume is the host directory of the volume or lies below it, whatever the
\* segments of the annotations
C34_PathsInsideVolume ==
    (call.fn = "performBackups" /\ call.done) =>
        /\ \A i \in DOMAIN call.out.paths : IsUnder(call.out.paths[i], call.in.Path)
        /\ \A i \in DOMAIN call.out.excludes : IsUnder(call.out.excludes[i], call.in.Path)

\* C35: a cycle whose discovery returns no volume issues no backup
\* invocation, and no backup invocation of any cycle has an empty list of
\* source paths
C35_NoBackupWithoutPaths ==
    (call.fn = "performBackups (cycle)" /\ call.done) =>
        /\ call.out.pvcs = <<>> =>
              \A i \in DOMAIN call.out.trace : call.out.trace[i].op # "backup"
        /\ \A i \in DOMAIN call.out.trace :
              call.out.trace[i].op = "backup" => call.out.trace[i].paths # <<>>

\* C36: ticks do not pile up: ticker.C never holds more than one tick, so a
\* cycle that returns finds at most one tick pending however many ticks fired
\* while it ran, and the cycles started, the pending tick included, never
\* exceed one plus the ticks fired
C36_TicksDoNotPileUp ==
    /\ tickChan <= 1
    /\ cycle + tickChan <= 1 + ticks

\* a tick-driven cycle has returned; two ticks fired while it ran and one of
\* them is pending
C36_Witness ==
    /\ pc = "returned"
    /\ ~initial
    /\ ticks - ticksAtStart = 2
    /\ tickChan = 1

====
